---------------------------- MODULE Spec2Model ----------------------------
(***************************************************************************)
(* Segmentation analysis engine: the trailing-window helper                *)
(* (src/utils/dates.py), the period metric aggregator and the snapshot     *)
(* builder (src/data/processor.py), the pickle cache                      *)
(* (src/utils/caching.py) and the views computed from a snapshot           *)
(* (src/analysis: metrics.py, summary.py, matrix.py, sankey.py,            *)
(* cohort.py, risk.py).                                                    *)
(*                                                                         *)
(* A table (pandas DataFrame) is a sequence of row records.  A null cell   *)
(* of a segment column is the string NaN; a nullable numeric cell is a set *)
(* holding at most one number ({} is NaN).                                 *)
(***************************************************************************)
EXTENDS Integers, Sequences, FiniteSets, TLC

VARIABLES
    ENABLE_CACHING,   \* settings.ENABLE_CACHING of the running process
    TTM_MONTHS,       \* settings.TTM_MONTHS of the running process
    ioMode,           \* condition of the cache directory tree (environment)
    disk,             \* cache files: [cache_type -> [identifier -> file]]
    call,             \* the call that has just returned: arguments and outcome
    saved,            \* history: data of the latest save_to_cache per entry
    clean             \* history: caching always on, no I/O failure, no eviction

vars == <<ENABLE_CACHING, TTM_MONTHS, ioMode, disk, call, saved, clean>>

-----------------------------------------------------------------------------
(* Bounds of the model *)

MaxWindow == 14       \* largest num_months tried for get_ttm_months
MaxRows == 3          \* most rows, over the three input tables of one call

(* Program constants *)

DEFAULT_TTM_MONTHS == 12      \* int(os.getenv('TTM_MONTHS', 12))

-----------------------------------------------------------------------------
(* Generic sequence helpers (pandas / python built-ins) *)

Range(s) == {s[i] : i \in DOMAIN s}

\* a sequence given as a function on 1..n, as an explicit tuple
Tuple(f) == f \o <<>>

\* python sorted() / pandas sort order on a set of integers
RECURSIVE SortedSeq(_)
SortedSeq(S) ==
    IF S = {} THEN <<>>
    ELSE LET m == CHOOSE x \in S : \A y \in S : x <= y
         IN  <<m>> \o SortedSeq(S \ {m})

\* sorted(list): insertion of every element of a list, duplicates kept
RECURSIVE Insert(_, _)
Insert(x, s) ==
    IF s = <<>> THEN <<x>>
    ELSE IF x <= Head(s) THEN <<x>> \o s
    ELSE <<Head(s)>> \o Insert(x, Tail(s))

RECURSIVE sorted(_)
sorted(s) == IF s = <<>> THEN <<>> ELSE Insert(Head(s), sorted(Tail(s)))

RECURSIVE Concat(_)
Concat(ss) == IF ss = <<>> THEN <<>> ELSE Head(ss) \o Concat(Tail(ss))

-----------------------------------------------------------------------------
(* src/utils/dates.py *)

\* the loop without the step back of the year
RECURSIVE WrapMonthSameYear(_, _)
WrapMonthSameYear(m, y) ==
    IF m <= 0 THEN WrapMonthSameYear(m + 12, y) ELSE y * 100 + m

\* the inner loop: while m <= 0: m += 12; y -= 1; then y * 100 + m
RECURSIVE WrapMonth(_, _)
WrapMonth(m, y) == IF m <= 0 THEN WrapMonth(m + 12, y - 1) ELSE y * 100 + m

\* the same loop with the bound off by one (m < 0)
RECURSIVE WrapMonthStrict(_, _)
WrapMonthStrict(m, y) ==
    IF m < 0 THEN WrapMonthStrict(m + 12, y - 1) ELSE y * 100 + m

MonthBackOffByOne(month, i) == WrapMonthStrict((month % 100) - i, month \div 100)

\* one iteration of "for i in range(num_months)"
MonthBack(month, i) == WrapMonth((month % 100) - i, month \div 100)

get_ttm_months(month, num_months) ==
    sorted(Tuple([k \in 1..num_months |-> MonthBack(month, k - 1)]))


-----------------------------------------------------------------------------
(* Data universe: column names of src/config/settings.py and the values    *)
(* the input tables are drawn from                                         *)

NaN == "NaN"                                  \* a null cell (numpy.nan)
Entities == {101, 102}                        \* glbl_enti_nbr values
Segments == {"SEG01", "SEG02"}                \* dmnt_seg_cd values
SegCells == Segments \cup {NaN}
BaseMonth == 2024 * 100 + 6                    \* 202406
CurrMonths == {202406, 202411}
\* 202306: in no trailing window; 202309: only in the base window;
\* 202410: only in the window of 202411
MetricMonths == {202306, 202309, 202410}
MetricCols == {"A_rev_wf", "A_vol_wf"}
MetricVectors == { [A_rev_wf |-> 1, A_vol_wf |-> 10],
                   [A_rev_wf |-> 2, A_vol_wf |-> 20] }

SegRows(month) ==
    { [glbl_enti_nbr |-> e, segmentation_mnth |-> month, dmnt_seg_cd |-> s] :
        e \in Entities, s \in SegCells }

MetricRows ==
    { [glbl_enti_nbr |-> e, shp_dt_yyyymm |-> m,
       A_rev_wf |-> v.A_rev_wf, A_vol_wf |-> v.A_vol_wf] :
        e \in Entities, m \in MetricMonths, v \in MetricVectors }

SeqsOfLen(S, n) == [1..n -> S]

\* df[col] / df[[cols]] finds its columns (a table without rows keeps the
\* header it was read with); otherwise pandas raises KeyError
HasColumns(df, cols) == df = <<>> \/ cols \subseteq DOMAIN df[1]

-----------------------------------------------------------------------------
(* src/data/processor.py: the period metric aggregator, without its cache  *)

MetricsTableColumns == {"glbl_enti_nbr", "shp_dt_yyyymm"} \cup MetricCols

\* detect_metric_columns: every column but the entity and the month column
detect_metric_columns == MetricsTableColumns \ {"glbl_enti_nbr", "shp_dt_yyyymm"}

RECURSIVE SumCol(_, _)
SumCol(rows, col) ==
    IF rows = <<>> THEN 0 ELSE Head(rows)[col] + SumCol(Tail(rows), col)

\* agg_dict = {col: 'first'}
AggFirst(rows, col) == IF rows = <<>> THEN 0 ELSE Head(rows)[col]

\* agg_dict = {col: 'sum'}: the aggregation applied to one group's column
Agg(rows, col) == SumCol(rows, col)

\* metrics_ttm.groupby(entity, as_index=False).agg(agg_dict): one row per
\* entity of the filtered rows, keys in ascending order
GroupByAgg(rows, cols) ==
    LET keys == SortedSeq({r.glbl_enti_nbr : r \in Range(rows)})
    IN  Tuple([k \in 1..Len(keys) |->
            [c \in cols \cup {"glbl_enti_nbr"} |->
                IF c = "glbl_enti_nbr" THEN keys[k]
                ELSE Agg(SelectSeq(rows, LAMBDA r : r.glbl_enti_nbr = keys[k]), c)]])

\* a filter that keeps every row, whatever its month
NoMonthFilter(metrics_glbl, ttm_months) == metrics_glbl

\* metrics_glbl[metrics_glbl[month].isin(ttm_months)]
FilterTtm(metrics_glbl, ttm_months) ==
    SelectSeq(metrics_glbl, LAMBDA r : r.shp_dt_yyyymm \in ttm_months)

\* the values TTM_MONTHS is configured with: the default and a quarter
WindowLengths == {3, DEFAULT_TTM_MONTHS}

\* get_ttm_months(month, num_months) of every month a call can name and
\* every configured length, as a set
TtmWindow ==
    [month \in {BaseMonth} \cup CurrMonths, num_months \in WindowLengths |->
        Range(get_ttm_months(month, num_months))]

\* calculate_ttm_metrics between its cache lookup and its cache store
ComputeTtm(metrics_glbl, month) ==
    LET ttm_months == TtmWindow[month, TTM_MONTHS]
        metrics_ttm == FilterTtm(metrics_glbl, ttm_months)
        metric_cols == detect_metric_columns
    IN  GroupByAgg(metrics_ttm, metric_cols)

-----------------------------------------------------------------------------
(* src/data/processor.py: the snapshot builder, without its cache          *)

isna(x) == x = NaN

\* Series == Series on one row: a comparison with a null cell is False
ElementwiseEq(a, b) == IF isna(a) \/ isna(b) THEN FALSE ELSE a = b

\* a masked assignment that ignores the null test of the base column
\* (status[same_seg] = 'Retained' / status[~same_seg] = 'Moved Internal')
ClassifyNoNullTest(base_segment, current_segment) ==
    IF base_segment = current_segment THEN "Retained" ELSE "Moved Internal"

\* classify_status_vectorized on one row: '' and then the four masked
\* assignments in program order; NaN == NaN is False
classify_status(base_segment, current_segment) ==
    LET base_na  == isna(base_segment)
        curr_na  == isna(current_segment)
        same_seg == ElementwiseEq(base_segment, current_segment)
        s0 == ""
        s1 == IF base_na /\ ~curr_na THEN "New (System)" ELSE s0
        s2 == IF ~base_na /\ curr_na THEN "Lost (System)" ELSE s1
        s3 == IF same_seg /\ ~base_na /\ ~curr_na THEN "Retained" ELSE s2
        s4 == IF ~same_seg /\ ~base_na /\ ~curr_na THEN "Moved Internal" ELSE s3
    IN  s4

classify_status_vectorized(snapshot) ==
    Tuple([i \in DOMAIN snapshot |->
        classify_status(snapshot[i].base_segment, snapshot[i].current_segment)])

\* base_seg[[entity, segment]] with the columns renamed to entity, <name>
PrepareSeg(seg) ==
    Tuple([i \in DOMAIN seg |->
        [entity |-> seg[i].glbl_enti_nbr, segment |-> seg[i].dmnt_seg_cd]])

\* the rows of an outer merge for one key: the product of the matching
\* rows, or the rows of one side with the other side's column null
MergeBlock(e, base, curr) ==
    LET L == SelectSeq(base, LAMBDA r : r.entity = e)
        R == SelectSeq(curr, LAMBDA r : r.entity = e)
    IN  IF R = <<>> THEN
            Tuple([i \in DOMAIN L |->
                [entity |-> e, base_segment |-> L[i].segment,
                 current_segment |-> NaN]])
        ELSE IF L = <<>> THEN
            Tuple([j \in DOMAIN R |->
                [entity |-> e, base_segment |-> NaN,
                 current_segment |-> R[j].segment]])
        ELSE
            Tuple([k \in 1..(Len(L) * Len(R)) |->
                [entity |-> e,
                 base_segment |-> L[((k - 1) \div Len(R)) + 1].segment,
                 current_segment |-> R[((k - 1) % Len(R)) + 1].segment]])

\* base.merge(curr, on='entity', how='outer'): keys in ascending order
OuterMerge(base, curr) ==
    LET keys == SortedSeq({r.entity : r \in Range(base)}
                          \cup {r.entity : r \in Range(curr)})
    IN  Concat(Tuple([k \in 1..Len(keys) |-> MergeBlock(keys[k], base, curr)]))

\* base_rename / curr_rename: the prefixed name of every metric column
base_rename == [A_rev_wf |-> "base_A_rev_wf", A_vol_wf |-> "base_A_vol_wf"]
curr_rename == [A_rev_wf |-> "current_A_rev_wf", A_vol_wf |-> "current_A_vol_wf"]

Renamed(rename) == {rename[c] : c \in DOMAIN rename}
Unrenamed(rename, col) == CHOOSE c \in DOMAIN rename : rename[c] = col

\* snapshot.merge(metrics, on='entity', how='left') after the renames: the
\* metric cells of a row without a match are null ({})
LeftMergeMetrics(snapshot, metrics, rename) ==
    LET Block(r) ==
            LET M == SelectSeq(metrics, LAMBDA m : m.glbl_enti_nbr = r.entity)
            IN  IF M = <<>> THEN
                    << r @@ [c \in Renamed(rename) |-> {}] >>
                ELSE
                    Tuple([j \in DOMAIN M |->
                        r @@ [c \in Renamed(rename) |->
                                {M[j][Unrenamed(rename, c)]}]])
    IN  Concat(Tuple([i \in DOMAIN snapshot |-> Block(snapshot[i])]))

\* fillna(0) on one cell
FillNa(cell) == IF cell = {} THEN 0 ELSE CHOOSE v \in cell : TRUE

SnapshotKeyColumns == {"entity", "base_segment", "current_segment", "status"}

\* snapshot[metric_cols_in_snapshot].fillna(0)
FillMetrics(snapshot) ==
    Tuple([i \in DOMAIN snapshot |->
        [c \in DOMAIN snapshot[i] |->
            IF c \in SnapshotKeyColumns THEN snapshot[i][c]
            ELSE FillNa(snapshot[i][c])]])

\* create_snapshot from the merge to the fill, given the two aggregates
BuildSnapshot(base_seg, curr_seg, base_metrics, curr_metrics) ==
    LET base == PrepareSeg(base_seg)
        curr == PrepareSeg(curr_seg)
        merged == OuterMerge(base, curr)
        status == classify_status_vectorized(merged)
        withStatus == Tuple([i \in DOMAIN merged |->
                                merged[i] @@ [status |-> status[i]]])
        withBase == LeftMergeMetrics(withStatus, base_metrics, base_rename)
        withCurr == LeftMergeMetrics(withBase, curr_metrics, curr_rename)
    IN  FillMetrics(withCurr)


-----------------------------------------------------------------------------
(* src/utils/caching.py                                                    *)
(*                                                                         *)
(* disk maps the path of every existing cache file to its content.  ioMode *)
(* is the condition of the directory tree: "ok"; "mkdir_fails" (the        *)
(* category directory can be neither created nor accessed); "open_fails"   *)
(* (files can be opened neither for reading nor for writing); "dump_fails" *)
(* (a file opens for writing and the write fails after the truncation).    *)

CacheTypes == {"snapshots", "metrics"}
IoModes == {"ok", "mkdir_fails", "open_fails", "dump_fails"}

\* pickle.dump of a table: the column names and one array per column
Pickle(df) ==
    LET columns == IF df = <<>> THEN {} ELSE DOMAIN df[1]
    IN  [nrows |-> Len(df),
         columns |-> columns,
         values |-> [c \in columns |-> [i \in 1..Len(df) |-> df[i][c]]]]

\* pickle.load: the rows rebuilt from the column arrays
Unpickle(blob) ==
    Tuple([i \in 1..blob.nrows |-> [c \in blob.columns |-> blob.values[c][i]]])

CorruptFile == [state |-> "corrupt", blob |-> Pickle(<<>>)]
PickleFile(data) == [state |-> "pickle", blob |-> Pickle(data)]

\* a key that also names the window length the aggregate was computed for
TtmIdWithWindow(month) == <<"ttm", month, TTM_MONTHS>>

\* f"ttm_{month}" and f"snapshot_{base_month}_{current_month}": the fields
\* of the formatted string
TtmId(month) == <<"ttm", month>>

\* an identifier that leaves out the current month
SnapshotIdBaseOnly(base_month, current_month) == <<"snapshot", base_month>>

SnapshotId(base_month, current_month) == <<"snapshot", base_month, current_month>>

\* one directory for every cache type
get_cache_path_flat(cache_type, identifier) == <<"processed", identifier>>

\* get_cache_path: PROCESSED_DIR / cache_type / f"{identifier}.pkl"; its
\* mkdir is outside every try block
get_cache_path(cache_type, identifier) == <<cache_type, identifier>>
get_cache_path_raises == ioMode = "mkdir_fails"

\* a save that ignores the flag
save_flag_ignored(d, data, cache_type, identifier) ==
    [disk |-> (get_cache_path(cache_type, identifier) :> PickleFile(data)) @@ d,
     raised |-> FALSE]

\* save_to_cache: the files after the call, and whether it raised
save_to_cache(d, data, cache_type, identifier) ==
    LET cache_path == get_cache_path(cache_type, identifier)
    IN  IF ~ENABLE_CACHING THEN [disk |-> d, raised |-> FALSE]
        ELSE IF get_cache_path_raises THEN [disk |-> d, raised |-> TRUE]
        ELSE IF ioMode = "open_fails" THEN [disk |-> d, raised |-> FALSE]
        ELSE IF ioMode = "dump_fails" THEN
            [disk |-> (cache_path :> CorruptFile) @@ d, raised |-> FALSE]
        ELSE [disk |-> (cache_path :> PickleFile(data)) @@ d, raised |-> FALSE]

Absent == [found |-> FALSE, data |-> <<>>, raised |-> FALSE]

\* load_from_cache: None (found = FALSE) or the unpickled data, and whether
\* it raised
load_from_cache(d, cache_type, identifier) ==
    LET cache_path == get_cache_path(cache_type, identifier)
    IN  IF ~ENABLE_CACHING THEN Absent
        ELSE IF get_cache_path_raises THEN
            [found |-> FALSE, data |-> <<>>, raised |-> TRUE]
        ELSE IF cache_path \notin DOMAIN d THEN Absent
        ELSE IF ioMode = "open_fails" THEN Absent
        ELSE IF d[cache_path].state = "corrupt" THEN Absent
        ELSE [found |-> TRUE, data |-> Unpickle(d[cache_path].blob),
              raised |-> FALSE]

-----------------------------------------------------------------------------
(* src/data/processor.py: the two cached entry points                      *)

\* calculate_ttm_metrics: the files after the call, the returned table,
\* whether it came from the cache and whether the call raised
\* calculate_ttm_metrics without the save of what it computed
calculate_ttm_metrics_unsaved(d, metrics_glbl, month) ==
    LET cached_data == load_from_cache(d, "metrics", TtmId(month))
    IN  IF cached_data.raised THEN
            [disk |-> d, result |-> <<>>, hit |-> FALSE, raised |-> TRUE]
        ELSE IF cached_data.found THEN
            [disk |-> d, result |-> cached_data.data, hit |-> TRUE, raised |-> FALSE]
        ELSE IF ~HasColumns(metrics_glbl, {"shp_dt_yyyymm", "glbl_enti_nbr"}) THEN
            [disk |-> d, result |-> <<>>, hit |-> FALSE, raised |-> TRUE]
        ELSE
            [disk |-> d, result |-> ComputeTtm(metrics_glbl, month),
             hit |-> FALSE, raised |-> FALSE]

calculate_ttm_metrics(d, metrics_glbl, month) ==
    LET cache_id == TtmId(month)
        cached_data == load_from_cache(d, "metrics", cache_id)
        ttm_metrics == ComputeTtm(metrics_glbl, month)
        stored == save_to_cache(d, ttm_metrics, "metrics", cache_id)
    IN  IF cached_data.raised THEN
            [disk |-> d, result |-> <<>>, hit |-> FALSE, raised |-> TRUE]
        ELSE IF cached_data.found THEN
            [disk |-> d, result |-> cached_data.data, hit |-> TRUE, raised |-> FALSE]
        ELSE IF ~HasColumns(metrics_glbl, {"shp_dt_yyyymm"}) THEN        \* line 37
            [disk |-> d, result |-> <<>>, hit |-> FALSE, raised |-> TRUE]
        ELSE IF ~HasColumns(metrics_glbl, {"glbl_enti_nbr"}) THEN        \* line 45
            [disk |-> d, result |-> <<>>, hit |-> FALSE, raised |-> TRUE]
        ELSE IF stored.raised THEN
            [disk |-> stored.disk, result |-> <<>>, hit |-> FALSE, raised |-> TRUE]
        ELSE
            [disk |-> stored.disk, result |-> ttm_metrics, hit |-> FALSE,
             raised |-> FALSE]

Raised(d) ==
    [disk |-> d, result |-> <<>>, raised |-> TRUE, hit |-> FALSE,
     base_hit |-> FALSE, curr_hit |-> FALSE,
     base_metrics |-> <<>>, curr_metrics |-> <<>>]

\* create_snapshot: the files after the call, the returned snapshot, which
\* lookups were served from the cache, the two aggregates it used, and
\* whether the call raised (a missing month column and iloc[0] of an empty
\* table raise before the cache lookup, a missing entity or segment column
\* after it)
create_snapshot(d, base_seg, curr_seg, metrics_glbl) ==
    IF ~HasColumns(base_seg, {"segmentation_mnth"}) THEN Raised(d)      \* line 77
    ELSE IF base_seg = <<>> THEN Raised(d)
    ELSE IF ~HasColumns(curr_seg, {"segmentation_mnth"}) THEN Raised(d) \* line 78
    ELSE IF curr_seg = <<>> THEN Raised(d)
    ELSE
    LET base_month == base_seg[1].segmentation_mnth
        current_month == curr_seg[1].segmentation_mnth
        cache_id == SnapshotId(base_month, current_month)
        cached_data == load_from_cache(d, "snapshots", cache_id)
        base_metrics == calculate_ttm_metrics(d, metrics_glbl, base_month)
        curr_metrics == calculate_ttm_metrics(base_metrics.disk, metrics_glbl,
                                              current_month)
        snapshot == BuildSnapshot(base_seg, curr_seg,
                                  base_metrics.result, curr_metrics.result)
        stored == save_to_cache(curr_metrics.disk, snapshot, "snapshots", cache_id)
    IN  IF cached_data.raised THEN Raised(d)
        ELSE IF cached_data.found THEN
            [disk |-> d, result |-> cached_data.data, raised |-> FALSE,
             hit |-> TRUE, base_hit |-> FALSE, curr_hit |-> FALSE,
             base_metrics |-> <<>>, curr_metrics |-> <<>>]
        ELSE IF ~HasColumns(base_seg, {"glbl_enti_nbr", "dmnt_seg_cd"})  \* line 90
            THEN Raised(d)
        ELSE IF ~HasColumns(curr_seg, {"glbl_enti_nbr", "dmnt_seg_cd"})  \* line 95
            THEN Raised(d)
        ELSE IF base_metrics.raised THEN Raised(base_metrics.disk)
        ELSE IF curr_metrics.raised THEN Raised(curr_metrics.disk)
        ELSE IF stored.raised THEN Raised(stored.disk)
        ELSE
            [disk |-> stored.disk, result |-> snapshot, raised |-> FALSE,
             hit |-> FALSE, base_hit |-> base_metrics.hit,
             curr_hit |-> curr_metrics.hit,
             base_metrics |-> base_metrics.result,
             curr_metrics |-> curr_metrics.result]


-----------------------------------------------------------------------------
(* Calls: each action is one call of a public function, from its entry to  *)
(* its return; call records the arguments and what was returned            *)

NoCall == [op |-> "none"]

GetTtmMonthsCall(month, num_months) ==
    /\ call' = [op |-> "get_ttm_months", month |-> month,
                num_months |-> num_months,
                result |-> get_ttm_months(month, num_months)]
    /\ UNCHANGED <<ENABLE_CACHING, TTM_MONTHS, ioMode, disk, saved, clean>>

CreateSnapshotCall(base_seg, curr_seg, metrics_glbl) ==
    LET r == create_snapshot(disk, base_seg, curr_seg, metrics_glbl)
    IN  /\ disk' = r.disk
        /\ call' = [op |-> "create_snapshot", base_seg |-> base_seg,
                    curr_seg |-> curr_seg, metrics_glbl |-> metrics_glbl,
                    raised |-> r.raised, hit |-> r.hit,
                    base_hit |-> r.base_hit, curr_hit |-> r.curr_hit,
                    base_metrics |-> r.base_metrics,
                    curr_metrics |-> r.curr_metrics, result |-> r.result]
        /\ UNCHANGED <<ENABLE_CACHING, TTM_MONTHS, ioMode, saved, clean>>

CalculateTtmCall(metrics_glbl, month) ==
    LET r == calculate_ttm_metrics(disk, metrics_glbl, month)
    IN  /\ disk' = r.disk
        /\ call' = [op |-> "calculate_ttm_metrics",
                    metrics_glbl |-> metrics_glbl, month |-> month,
                    raised |-> r.raised, hit |-> r.hit, result |-> r.result]
        /\ UNCHANGED <<ENABLE_CACHING, TTM_MONTHS, ioMode, saved, clean>>

\* saved and clean follow the direct calls of the cache layer: the data of
\* the latest save per (cache_type, identifier), kept for as long as caching
\* has always been on and nothing has failed or been removed
SaveToCacheCall(data, cache_type, identifier) ==
    LET r == save_to_cache(disk, data, cache_type, identifier)
        ok == clean /\ ENABLE_CACHING /\ ioMode = "ok"
    IN  /\ disk' = r.disk
        /\ call' = [op |-> "save_to_cache", data |-> data,
                    cache_type |-> cache_type, identifier |-> identifier,
                    raised |-> r.raised]
        /\ clean' = ok
        /\ saved' = IF ok THEN (<<cache_type, identifier>> :> data) @@ saved
                    ELSE <<>>
        /\ UNCHANGED <<ENABLE_CACHING, TTM_MONTHS, ioMode>>

LoadFromCacheCall(cache_type, identifier) ==
    LET r == load_from_cache(disk, cache_type, identifier)
        ok == clean /\ ENABLE_CACHING /\ ioMode = "ok"
    IN  /\ call' = [op |-> "load_from_cache",
                    cache_type |-> cache_type, identifier |-> identifier,
                    raised |-> r.raised, found |-> r.found, data |-> r.data]
        /\ clean' = ok
        /\ saved' = IF ok THEN saved ELSE <<>>
        /\ UNCHANGED <<ENABLE_CACHING, TTM_MONTHS, ioMode, disk>>

-----------------------------------------------------------------------------
(* Environment: what happens to the process and to the cache directory     *)
(* between two calls                                                       *)

\* the process is restarted with another ENABLE_CACHING in its environment
\* (settings.py reads it once, at import); the cache files stay
Restart(flag) ==
    /\ flag # ENABLE_CACHING
    /\ ENABLE_CACHING' = flag
    /\ call' = NoCall
    /\ clean' = FALSE
    /\ saved' = <<>>
    /\ UNCHANGED <<TTM_MONTHS, ioMode, disk>>

SetIoMode(mode) ==
    /\ mode # ioMode
    /\ ioMode' = mode
    /\ call' = NoCall
    /\ clean' = FALSE
    /\ saved' = <<>>
    /\ UNCHANGED <<ENABLE_CACHING, TTM_MONTHS, disk>>

\* the process is restarted with another TTM_MONTHS in its environment
Reconfigure(num_months) ==
    /\ num_months # TTM_MONTHS
    /\ TTM_MONTHS' = num_months
    /\ call' = NoCall
    /\ UNCHANGED <<ENABLE_CACHING, ioMode, disk, saved, clean>>

\* a cache file is damaged on disk
CorruptEntry(path) ==
    /\ path \in DOMAIN disk
    /\ disk[path].state = "pickle"
    /\ disk' = [disk EXCEPT ![path] = CorruptFile]
    /\ call' = NoCall
    /\ clean' = FALSE
    /\ saved' = <<>>
    /\ UNCHANGED <<ENABLE_CACHING, TTM_MONTHS, ioMode>>

\* eviction / clearing: a cache file is deleted
RemoveEntry(path) ==
    /\ path \in DOMAIN disk
    /\ disk' = [q \in DOMAIN disk \ {path} |-> disk[q]]
    /\ call' = NoCall
    /\ clean' = FALSE
    /\ saved' = <<>>
    /\ UNCHANGED <<ENABLE_CACHING, TTM_MONTHS, ioMode>>

-----------------------------------------------------------------------------
(* Specifications *)

\* a process that has imported settings.py, over an empty cache directory
Init ==
    /\ ENABLE_CACHING \in BOOLEAN
    /\ TTM_MONTHS = DEFAULT_TTM_MONTHS
    /\ ioMode = "ok"
    /\ disk = <<>>
    /\ call = NoCall
    /\ saved = <<>>
    /\ clean = ENABLE_CACHING

(* SpecDates: calls of get_ttm_months *)

TargetMonths == {202400 + m : m \in 1..12} \cup {202301, 202312}

NextDates ==
    \E month \in TargetMonths, num_months \in 1..MaxWindow :
        GetTtmMonthsCall(month, num_months)

SpecDates == Init /\ [][NextDates]_vars

(* SpecFresh: the first call of a process over an empty cache, for every   *)
(* choice of input tables of at most MaxRows rows in all                   *)

FreshBuild ==
    /\ call = NoCall
    /\ \E nb \in 0..MaxRows :
       \E nc \in 0..(MaxRows - nb) :
       \E nm \in 0..(MaxRows - nb - nc) :
       \E current_month \in CurrMonths :
       \E base_seg \in SeqsOfLen(SegRows(BaseMonth), nb) :
       \E curr_seg \in SeqsOfLen(SegRows(current_month), nc) :
       \E metrics_glbl \in SeqsOfLen(MetricRows, nm) :
            CreateSnapshotCall(base_seg, curr_seg, metrics_glbl)

FreshTtm ==
    /\ call = NoCall
    /\ \E nm \in 0..MaxRows :
       \E month \in CurrMonths :
       \E metrics_glbl \in SeqsOfLen(MetricRows, nm) :
            CalculateTtmCall(metrics_glbl, month)

NextFresh == FreshBuild \/ FreshTtm

SpecFresh == Init /\ [][NextFresh]_vars

(* Spec: snapshot builds of the dashboard / batch run, interleaved with    *)
(* restarts and with changes of the cache directory; the assignment and    *)
(* metrics files may change between two builds                             *)

Seg(e, month, s) ==
    [glbl_enti_nbr |-> e, segmentation_mnth |-> month, dmnt_seg_cd |-> s]
Met(e, month, rev, vol) ==
    [glbl_enti_nbr |-> e, shp_dt_yyyymm |-> month, A_rev_wf |-> rev, A_vol_wf |-> vol]

\* two versions of the data directory (base_seg.csv, curr_seg_<month>.csv,
\* rev_glbl.csv): the files as first delivered and as delivered again
Datasets ==
    { [base_seg |-> << Seg(101, BaseMonth, "SEG01"), Seg(102, BaseMonth, "SEG02") >>,
       curr_seg |-> [month \in CurrMonths |-> << Seg(101, month, "SEG01") >>],
       metrics_glbl |-> << Met(101, 202309, 1, 10), Met(101, 202410, 2, 20),
                           Met(101, 202306, 1, 10) >>],
      [base_seg |-> << Seg(101, BaseMonth, "SEG02") >>,
       curr_seg |-> [month \in CurrMonths |->
                        << Seg(101, month, "SEG02"), Seg(102, month, "SEG02") >>],
       metrics_glbl |-> << Met(101, 202309, 2, 20), Met(101, 202309, 1, 10),
                           Met(102, 202410, 1, 10) >>] }

Build ==
    \E data \in Datasets :
    \E current_month \in CurrMonths :
        CreateSnapshotCall(data.base_seg, data.curr_seg[current_month],
                           data.metrics_glbl)

Environment ==
    \/ \E flag \in BOOLEAN : Restart(flag)
    \/ \E mode \in IoModes : SetIoMode(mode)
    \/ \E path \in DOMAIN disk : RemoveEntry(path)

Next == Build \/ Environment

Spec == Init /\ [][Next]_vars

(* SpecWindow: snapshot builds of a process that is restarted with other   *)
(* window lengths, over a cache directory that is cleared file by file     *)

NextWindow ==
    \/ Build
    \/ \E num_months \in WindowLengths : Reconfigure(num_months)
    \/ \E path \in DOMAIN disk : RemoveEntry(path)

SpecWindow == Init /\ [][NextWindow]_vars

(* SpecMalformed: calls with well-formed tables, with empty tables and    *)
(* with tables that lack a column, over whatever the earlier calls cached  *)

\* the table without one of its columns
DropColumn(df, col) ==
    Tuple([i \in DOMAIN df |-> [c \in DOMAIN df[i] \ {col} |-> df[i][c]]])

SegmentationColumns == {"glbl_enti_nbr", "segmentation_mnth", "dmnt_seg_cd"}
MetricsColumns == {"glbl_enti_nbr", "shp_dt_yyyymm"}

TableVariants(df, cols) == {df, <<>>} \cup {DropColumn(df, col) : col \in cols}

FirstDelivery ==
    CHOOSE data \in Datasets : Len(data.base_seg) = 2

MalformedBuild ==
    \E current_month \in CurrMonths :
    \E base_seg \in TableVariants(FirstDelivery.base_seg, SegmentationColumns) :
    \E curr_seg \in TableVariants(FirstDelivery.curr_seg[current_month],
                                    SegmentationColumns) :
    \E metrics_glbl \in TableVariants(FirstDelivery.metrics_glbl, MetricsColumns) :
        CreateSnapshotCall(base_seg, curr_seg, metrics_glbl)

MalformedTtm ==
    \E month \in CurrMonths :
    \E metrics_glbl \in TableVariants(FirstDelivery.metrics_glbl, MetricsColumns) :
        CalculateTtmCall(metrics_glbl, month)

NextMalformed == MalformedBuild \/ MalformedTtm

SpecMalformed == Init /\ [][NextMalformed]_vars

(* SpecCache: direct calls of the cache layer under the same environment   *)

CacheData ==
    { <<>>,
      << [glbl_enti_nbr |-> 101, A_rev_wf |-> 1, A_vol_wf |-> 10] >>,
      << [glbl_enti_nbr |-> 101, A_rev_wf |-> 2, A_vol_wf |-> 20],
         [glbl_enti_nbr |-> 102, A_rev_wf |-> 1, A_vol_wf |-> 10] >> }
CacheIds == { TtmId(BaseMonth), SnapshotId(BaseMonth, 202411) }

CacheCall ==
    \/ \E data \in CacheData, t \in CacheTypes, i \in CacheIds :
            SaveToCacheCall(data, t, i)
    \/ \E t \in CacheTypes, i \in CacheIds : LoadFromCacheCall(t, i)

NextCache ==
    \/ CacheCall
    \/ Environment
    \/ \E path \in DOMAIN disk : CorruptEntry(path)

SpecCache == Init /\ [][NextCache]_vars


-----------------------------------------------------------------------------
(* Properties *)

Statuses == {"Retained", "Moved Internal", "New (System)", "Lost (System)"}

\* the last call was create_snapshot and it computed what it returned
ComputedSnapshot ==
    /\ call.op = "create_snapshot"
    /\ ~call.raised
    /\ ~call.hit

SegEntities(seg) == {seg[i].glbl_enti_nbr : i \in DOMAIN seg}

\* C1: every row of a snapshot computed by create_snapshot has one of the
\* four statuses Retained, Moved Internal, New (System), Lost (System); no
\* row is left with an empty status, whatever non-empty assignment tables
\* are given (rows with a null segment code and duplicated entities included)
C1_StatusIsOneOfFour ==
    ComputedSnapshot =>
        \A i \in DOMAIN call.result : call.result[i].status \in Statuses

\* C2: in a computed snapshot a row is New (System) iff its base segment is
\* null and its current segment is not, Lost (System) iff its base segment
\* is not null and its current segment is, Retained iff both are non-null
\* and equal, Moved Internal iff both are non-null and different; two rows
\* with the same pair of segments have the same status
C2_TransitionRule ==
    ComputedSnapshot =>
        /\ \A i \in DOMAIN call.result :
            LET r == call.result[i]
                bn == r.base_segment = NaN
                cn == r.current_segment = NaN
            IN  /\ (r.status = "New (System)") <=> (bn /\ ~cn)
                /\ (r.status = "Lost (System)") <=> (~bn /\ cn)
                /\ (r.status = "Retained") <=>
                        (~bn /\ ~cn /\ r.base_segment = r.current_segment)
                /\ (r.status = "Moved Internal") <=>
                        (~bn /\ ~cn /\ r.base_segment # r.current_segment)
        /\ \A i, j \in DOMAIN call.result :
            (/\ call.result[i].base_segment = call.result[j].base_segment
             /\ call.result[i].current_segment = call.result[j].current_segment)
            => call.result[i].status = call.result[j].status

\* a computed snapshot that holds a Moved Internal and a Lost (System) row
C2_Witness ==
    /\ ComputedSnapshot
    /\ \E i, j \in DOMAIN call.result :
        /\ call.result[i].status = "Moved Internal"
        /\ call.result[j].status = "Lost (System)"

\* C3: a computed snapshot has exactly one row per entity id of the base or
\* the current assignment table: its entity ids are the union of the two
\* tables' entity ids and no entity id occurs in two rows, duplicated
\* entities in an assignment table included
C3_OneRowPerEntity ==
    ComputedSnapshot =>
        /\ {call.result[i].entity : i \in DOMAIN call.result}
                = SegEntities(call.base_seg) \cup SegEntities(call.curr_seg)
        /\ \A i, j \in DOMAIN call.result :
                call.result[i].entity = call.result[j].entity => i = j


\* calendar arithmetic on YYYYMM values, for stating the properties
MonthIndex(ym) == (ym \div 100) * 12 + (ym % 100)
NextMonth(ym) == IF ym % 100 = 12 THEN (ym \div 100 + 1) * 100 + 1 ELSE ym + 1
InWindow(ym, target, window_months) ==
    (MonthIndex(target) - MonthIndex(ym)) \in 0..(window_months - 1)

\* the sum of column col over the first n rows of the metrics table that
\* belong to entity e and to the trailing window ending at target
RECURSIVE WindowSum(_, _, _, _, _)
WindowSum(metrics, n, e, col, target) ==
    IF n = 0 THEN 0
    ELSE WindowSum(metrics, n - 1, e, col, target)
         + (IF /\ metrics[n].glbl_enti_nbr = e
               /\ InWindow(metrics[n].shp_dt_yyyymm, target, TTM_MONTHS)
            THEN metrics[n][col] ELSE 0)

\* C4: in a snapshot computed by create_snapshot without any cache hit,
\* every row's base_<m> is the entity's trailing-window sum of m ending at
\* the base month and its current_<m> the sum ending at the current month,
\* for every metric m; an entity without metric rows in the window has 0
C4_MetricColumnsAreWindowSums ==
    (ComputedSnapshot /\ ~call.base_hit /\ ~call.curr_hit) =>
        \A i \in DOMAIN call.result : \A m \in MetricCols :
            LET r == call.result[i]
                n == Len(call.metrics_glbl)
            IN  /\ r[base_rename[m]] =
                        WindowSum(call.metrics_glbl, n, r.entity, m,
                                  call.base_seg[1].segmentation_mnth)
                /\ r[curr_rename[m]] =
                        WindowSum(call.metrics_glbl, n, r.entity, m,
                                  call.curr_seg[1].segmentation_mnth)

\* a snapshot computed without a cache hit in which one entity has different
\* non-zero base and current sums and another entity is zero-filled
C4_Witness ==
    /\ ComputedSnapshot /\ ~call.base_hit /\ ~call.curr_hit
    /\ \E i, j \in DOMAIN call.result :
        /\ call.result[i].base_A_rev_wf = 1
        /\ call.result[i].current_A_rev_wf = 2
        /\ call.result[j].base_A_vol_wf = 0
        /\ call.result[j].current_A_vol_wf = 0

\* C5: get_ttm_months(target, W) returns W months in strictly ascending
\* order, each with a month part in 1..12, each the calendar successor of
\* the one before, the last one being the target month
C5_TrailingWindow ==
    call.op = "get_ttm_months" =>
        LET r == call.result
            W == call.num_months
        IN  /\ Len(r) = W
            /\ r[W] = call.month
            /\ \A i \in 1..W : (r[i] % 100) \in 1..12
            /\ \A i \in 1..(W - 1) : r[i] < r[i + 1] /\ NextMonth(r[i]) = r[i + 1]

\* a window of three months ending in January, across the year boundary
C5_Witness ==
    /\ call.op = "get_ttm_months"
    /\ call.month = 202401
    /\ call.result = <<202311, 202312, 202401>>

Swap(s, i, j) ==
    [k \in DOMAIN s |-> IF k = i THEN s[j] ELSE IF k = j THEN s[i] ELSE s[k]]

\* result is what the aggregator has to compute from metrics for month: one
\* row per entity with a row in the window, holding the window sums, and the
\* same table when two rows of the metrics table change places
IsAggregateOf(result, metrics, month) ==
    LET inWindow == {i \in DOMAIN metrics :
                        InWindow(metrics[i].shp_dt_yyyymm, month, TTM_MONTHS)}
        entities == {metrics[i].glbl_enti_nbr : i \in inWindow}
    IN  /\ {result[k].glbl_enti_nbr : k \in DOMAIN result} = entities
        /\ Len(result) = Cardinality(entities)
        /\ \A k \in DOMAIN result : \A m \in MetricCols :
                result[k][m] = WindowSum(metrics, Len(metrics),
                                         result[k].glbl_enti_nbr, m, month)
        /\ \A i, j \in DOMAIN metrics :
                i < j => ComputeTtm(Swap(metrics, i, j), month) = result

\* C6: when calculate_ttm_metrics computes its result (no cache hit), the
\* result has exactly one row per entity with a metrics row in the trailing
\* window, no row for any other entity, each metric being the sum over the
\* entity's rows in the window, whatever the order of the metrics rows
C6_AggregatePerEntity ==
    /\ (call.op = "calculate_ttm_metrics" /\ ~call.raised /\ ~call.hit) =>
            IsAggregateOf(call.result, call.metrics_glbl, call.month)
    /\ (ComputedSnapshot /\ ~call.base_hit) =>
            IsAggregateOf(call.base_metrics, call.metrics_glbl,
                          call.base_seg[1].segmentation_mnth)
    /\ (ComputedSnapshot /\ ~call.curr_hit) =>
            IsAggregateOf(call.curr_metrics, call.metrics_glbl,
                          call.curr_seg[1].segmentation_mnth)

\* a computed aggregate of three metrics rows: two rows of one entity in the
\* window are summed, the other entity has no row in the window and is absent
C6_Witness ==
    /\ call.op = "calculate_ttm_metrics" /\ ~call.raised /\ ~call.hit
    /\ Len(call.metrics_glbl) = 3
    /\ Cardinality({call.metrics_glbl[i].glbl_enti_nbr :
                        i \in DOMAIN call.metrics_glbl}) = 2
    /\ Len(call.result) = 1
    /\ call.result[1].A_rev_wf = 3


\* the file of the snapshot cache for a pair of months
SnapshotEntry(base_month, current_month) ==
    <<"snapshots", <<"snapshot", base_month, current_month>>>>

\* what create_snapshot computes from its arguments when nothing is cached
Recomputed(base_seg, curr_seg, metrics_glbl) ==
    BuildSnapshot(base_seg, curr_seg,
                  ComputeTtm(metrics_glbl, base_seg[1].segmentation_mnth),
                  ComputeTtm(metrics_glbl, curr_seg[1].segmentation_mnth))

\* a step that is a call of create_snapshot with caching on and a healthy
\* cache directory (every other step sets call to NoCall or to another op)
CachedBuildStep ==
    /\ call'.op = "create_snapshot"
    /\ ENABLE_CACHING
    /\ ioMode = "ok"

\* C7: with caching on and no I/O failure, create_snapshot looks up the
\* entry of its (base_month, current_month) before computing: when a
\* snapshot is stored there it returns that snapshot, computes nothing and
\* leaves the cache alone, whatever tables it is given; otherwise it
\* computes and leaves its result stored under that key, so that a lookup
\* right after any build finds the snapshot the build returned
C7_SnapshotCacheReuse ==
    [][ CachedBuildStep =>
          LET entry == SnapshotEntry(call'.base_seg[1].segmentation_mnth,
                                     call'.curr_seg[1].segmentation_mnth)
          IN  /\ ~call'.raised
              /\ IF entry \in DOMAIN disk /\ disk[entry].state = "pickle"
                 THEN /\ call'.hit
                      /\ call'.result = Unpickle(disk[entry].blob)
                      /\ disk' = disk
                 ELSE /\ ~call'.hit
                      /\ call'.result = BuildSnapshot(call'.base_seg,
                                            call'.curr_seg,
                                            call'.base_metrics,
                                            call'.curr_metrics)
              /\ entry \in DOMAIN disk'
              /\ disk'[entry].state = "pickle"
              /\ Unpickle(disk'[entry].blob) = call'.result
      ]_vars

\* a build served from the cache although the tables it was given yield
\* another snapshot
C7_Witness ==
    /\ call.op = "create_snapshot"
    /\ ENABLE_CACHING /\ ioMode = "ok"
    /\ call.hit
    /\ call.result # Recomputed(call.base_seg, call.curr_seg, call.metrics_glbl)

\* C8: with the flag off save_to_cache leaves every cache file as it is and
\* load_from_cache reports absent for every (cache_type, identifier), also
\* for the entries stored while the flag was on
C8_DisabledCacheIsInert ==
    /\ [](~ENABLE_CACHING =>
            /\ \A t \in CacheTypes, i \in CacheIds :
                    load_from_cache(disk, t, i) = Absent
            /\ call.op = "load_from_cache" =>
                    ~call.found /\ ~call.raised /\ call.data = <<>>)
    /\ [][ (~ENABLE_CACHING /\ call'.op = "save_to_cache") =>
                (disk' = disk /\ ~call'.raised) ]_vars

\* with the flag off, a load of an entry that was stored earlier, and is
\* still on disk, reports absent
C8_Witness ==
    /\ ~ENABLE_CACHING
    /\ call.op = "load_from_cache"
    /\ <<call.cache_type, call.identifier>> \in DOMAIN disk
    /\ disk[<<call.cache_type, call.identifier>>].state = "pickle"
    /\ ~call.found

\* C9: no failure of the cache layer reaches the caller: save_to_cache and
\* load_from_cache never raise, whatever the state of the cache directory
C9_CacheFailureNeverPropagates ==
    call.op \in {"save_to_cache", "load_from_cache"} => ~call.raised

\* C10: with caching always on and no I/O failure, load_from_cache(t, i)
\* returns the data of the latest save_to_cache(data, t, i) and absent when
\* there was none; a save under one (cache_type, identifier) changes what
\* is loaded under no other
C10_CacheRoundTrip ==
    clean =>
        /\ \A t \in CacheTypes, i \in CacheIds :
            LET r == load_from_cache(disk, t, i)
            IN  /\ ~r.raised
                /\ r.found <=> (<<t, i>> \in DOMAIN saved)
                /\ r.found => r.data = saved[<<t, i>>]
        /\ call.op = "load_from_cache" =>
            /\ ~call.raised
            /\ call.found <=> (<<call.cache_type, call.identifier>> \in DOMAIN saved)
            /\ call.found => call.data = saved[<<call.cache_type, call.identifier>>]

\* a load that finds its entry while the same identifier holds other data
\* under the other cache type and another identifier was never saved
C10_Witness ==
    /\ clean
    /\ call.op = "load_from_cache" /\ call.found
    /\ call.data # <<>>
    /\ \E t \in CacheTypes :
        /\ <<t, call.identifier>> \in DOMAIN saved
        /\ saved[<<t, call.identifier>>] # call.data
    /\ \E t \in CacheTypes, i \in CacheIds : <<t, i>> \notin DOMAIN saved

-----------------------------------------------------------------------------
(* src/utils/caching.py under concurrent callers (the dashboard serves its *)
(* callbacks from several threads; batch runs share PROCESSED_DIR).        *)
(*                                                                         *)
(* SpecConcurrent follows save_to_cache and load_from_cache statement by   *)
(* statement on one (cache_type, identifier).  In this specification a     *)
(* file of disk is its raw content, a sequence of chunks, and call holds   *)
(* the position of every caller.  pickle.dump writes the header chunk and  *)
(* one chunk per row; every open file has its own offset.                  *)

Procs == {1, 2}
ConcPath == get_cache_path("metrics", TtmId(BaseMonth))
ConcData == {data \in CacheData : data # <<>>}

\* the byte stream of pickle.dump(data, f), in the order it is written
Chunks(data) ==
    Tuple([k \in 1..(Len(data) + 1) |-> [of |-> data, part |-> k - 1]])

\* the bytes of a hole (a write past the end of a truncated file)
Hole == [of |-> <<>>, part |-> -1]

\* f.write of one chunk at position pos of the file
WriteAt(content, pos, chunk) ==
    LET n == IF Len(content) > pos THEN Len(content) ELSE pos
    IN  Tuple([i \in 1..n |->
            IF i = pos THEN chunk
            ELSE IF i <= Len(content) THEN content[i] ELSE Hole])

IsPrefix(s, t) == Len(s) <= Len(t) /\ SubSeq(t, 1, Len(s)) = s

\* pickle.load(f): the object whose complete stream starts the file (bytes
\* after its end are not read); any other content raises, and the except
\* clause of load_from_cache returns None
pickle_load(content) ==
    IF \E data \in ConcData : IsPrefix(Chunks(data), content)
    THEN [found |-> TRUE,
          data |-> CHOOSE data \in ConcData : IsPrefix(Chunks(data), content)]
    ELSE [found |-> FALSE, data |-> <<>>]

Idle == [pc |-> "idle", op |-> "none", data |-> <<>>, offset |-> 0,
         found |-> FALSE]

proc == call.proc

SetProc(p, rec) == call' = [call EXCEPT !.proc[p] = rec]

\* save_to_cache line 20-23: the flag test and get_cache_path
SaveBegin(p, data) ==
    /\ proc[p].pc = "idle"
    /\ SetProc(p, [Idle EXCEPT !.op = "save", !.data = data,
                   !.pc = IF ENABLE_CACHING THEN "open" ELSE "done"])
    /\ UNCHANGED <<ENABLE_CACHING, TTM_MONTHS, ioMode, disk, saved, clean>>

\* line 25: open(cache_path, 'wb') creates or truncates the file
SaveOpen(p) ==
    /\ proc[p].pc = "open" /\ proc[p].op = "save"
    /\ disk' = (ConcPath :> <<>>) @@ disk
    /\ SetProc(p, [proc[p] EXCEPT !.pc = "write", !.offset = 0])
    /\ UNCHANGED <<ENABLE_CACHING, TTM_MONTHS, ioMode, saved, clean>>

\* line 26: pickle.dump, one write at this caller's own offset
SaveWrite(p) ==
    /\ proc[p].pc = "write"
    /\ proc[p].offset < Len(Chunks(proc[p].data))
    /\ disk' = [disk EXCEPT ![ConcPath] =
                    WriteAt(@, proc[p].offset + 1,
                            Chunks(proc[p].data)[proc[p].offset + 1])]
    /\ SetProc(p, [proc[p] EXCEPT !.offset = @ + 1])
    /\ UNCHANGED <<ENABLE_CACHING, TTM_MONTHS, ioMode, saved, clean>>

\* the end of the with block: the file is closed
SaveClose(p) ==
    /\ proc[p].pc = "write"
    /\ proc[p].offset = Len(Chunks(proc[p].data))
    /\ SetProc(p, [proc[p] EXCEPT !.pc = "done"])
    /\ UNCHANGED <<ENABLE_CACHING, TTM_MONTHS, ioMode, disk, saved, clean>>

\* load_from_cache line 34-37
LoadBegin(p) ==
    /\ proc[p].pc = "idle"
    /\ SetProc(p, [Idle EXCEPT !.op = "load",
                   !.pc = IF ENABLE_CACHING THEN "exists" ELSE "done"])
    /\ UNCHANGED <<ENABLE_CACHING, TTM_MONTHS, ioMode, disk, saved, clean>>

\* line 39-40: if not cache_path.exists(): return None
LoadExists(p) ==
    /\ proc[p].pc = "exists"
    /\ SetProc(p, [proc[p] EXCEPT
                   !.pc = IF ConcPath \in DOMAIN disk THEN "open" ELSE "done"])
    /\ UNCHANGED <<ENABLE_CACHING, TTM_MONTHS, ioMode, disk, saved, clean>>

\* line 42-49: open, pickle.load, and the except clause
LoadRead(p) ==
    /\ proc[p].pc = "open" /\ proc[p].op = "load"
    /\ LET r == pickle_load(disk[ConcPath])
       IN  SetProc(p, [proc[p] EXCEPT !.pc = "done", !.found = r.found,
                                      !.data = r.data])
    /\ UNCHANGED <<ENABLE_CACHING, TTM_MONTHS, ioMode, disk, saved, clean>>

\* the call returns to its caller
Return(p) ==
    /\ proc[p].pc = "done"
    /\ SetProc(p, Idle)
    /\ UNCHANGED <<ENABLE_CACHING, TTM_MONTHS, ioMode, disk, saved, clean>>

InitConcurrent ==
    /\ ENABLE_CACHING \in BOOLEAN
    /\ TTM_MONTHS = DEFAULT_TTM_MONTHS
    /\ ioMode = "ok"
    /\ disk = <<>>
    /\ call = [op |-> "concurrent", proc |-> [p \in Procs |-> Idle]]
    /\ saved = <<>>
    /\ clean = ENABLE_CACHING

NextConcurrent ==
    \E p \in Procs :
        \/ \E data \in ConcData : SaveBegin(p, data)
        \/ SaveOpen(p)
        \/ SaveWrite(p)
        \/ SaveClose(p)
        \/ LoadBegin(p)
        \/ LoadExists(p)
        \/ LoadRead(p)
        \/ Return(p)

SpecConcurrent == InitConcurrent /\ [][NextConcurrent]_vars

\* C11: concurrent save_to_cache and load_from_cache calls on one
\* (cache_type, identifier) are serialized: at every moment the stored file
\* is absent or holds the complete data of one of the saves, never a
\* partial or mixed blob
C11_StoredBlobIsWhole ==
    ConcPath \in DOMAIN disk =>
        \E data \in ConcData : disk[ConcPath] = Chunks(data)

\* the same once every call has returned: the file left behind is whole
QuiescentBlobIsWhole ==
    (\A p \in Procs : proc[p].pc = "idle") => C11_StoredBlobIsWhole

-----------------------------------------------------------------------------
(* Structural preconditions of the two cached entry points *)

MalformedSeg(seg) == seg = <<>> \/ ~HasColumns(seg, SegmentationColumns)

\* C12: create_snapshot fails (DataError) whenever the base or the current
\* assignment table is empty or lacks the entity, month or segment column,
\* for every call and in every cache state; no snapshot is returned
C12_MalformedAssignmentTableFails ==
    ( /\ call.op = "create_snapshot"
      /\ MalformedSeg(call.base_seg) \/ MalformedSeg(call.curr_seg) )
    => call.raised /\ call.result = <<>>

\* C13: calculate_ttm_metrics fails (DataError) whenever the metrics table
\* lacks the entity or the month column, for every call and in every cache
\* state, instead of returning a result
C13_MalformedMetricsTableFails ==
    ( /\ call.op = "calculate_ttm_metrics"
      /\ ~HasColumns(call.metrics_glbl, MetricsColumns) )
    => call.raised

-----------------------------------------------------------------------------
(* src/analysis: the views computed from a snapshot                        *)
(*                                                                         *)
(* A view table is a sequence of rows; a row is a function from the column *)
(* names of the source to cells.                                           *)

RECURSIVE SumSeq(_)
SumSeq(s) == IF s = <<>> THEN 0 ELSE Head(s) + SumSeq(Tail(s))

\* Series != value on one row: a comparison with a null cell is True
ElementwiseNe(a, b) == IF isna(a) \/ isna(b) THEN TRUE ELSE a # b

\* the lexicographic order of the segment codes, for sorted(...)
SegmentOrder ==
    <<"SEG01", "SEG02", "SEG1", "SEG10", "SEG11", "SEG15", "SEG16", "SEG18">>

\* sorted(snapshot[column].dropna().unique())
SortedSegments(snapshot, column) ==
    SelectSeq(SegmentOrder,
              LAMBDA s : \E i \in DOMAIN snapshot : snapshot[i][column] = s)

\* sorted(base_segments | curr_segments)
SortedUnion(snapshot) ==
    SelectSeq(SegmentOrder,
              LAMBDA s : \E i \in DOMAIN snapshot :
                    snapshot[i].base_segment = s \/ snapshot[i].current_segment = s)

\* df.columns of a snapshot (a snapshot without rows has lost none)
SnapshotColumns(df) ==
    IF df = <<>> THEN SnapshotKeyColumns \cup Renamed(base_rename)
                              \cup Renamed(curr_rename)
    ELSE DOMAIN df[1]

\* the selectors of the dashboard: 'count', the metrics of the snapshot,
\* and a metric the snapshot has no column for
MetricSelectors == {"count", "A_rev_wf", "A_vol_wf", "B_rev_wf"}
Periods == {"base", "current"}

\* src/analysis/metrics.py calculate_metric, with the period ignored
calculate_metric_one_period(df, period, metric) ==
    IF Len(df) = 0 THEN 0
    ELSE IF metric = "count" THEN Len(df)
    ELSE LET col_name == "current_" \o metric
         IN  IF col_name \in SnapshotColumns(df) THEN SumCol(df, col_name) ELSE 0

\* src/analysis/metrics.py calculate_metric
calculate_metric(df, period, metric) ==
    IF Len(df) = 0 THEN 0
    ELSE IF metric = "count" THEN Len(df)
    ELSE LET col_name == period \o "_" \o metric
         IN  IF col_name \in SnapshotColumns(df) THEN SumCol(df, col_name) ELSE 0

(* src/analysis/summary.py *)

SummaryNumericColumns ==
    <<"Base", "Current", "Retained", "New (System)", "Added (Other Seg)",
      "Lost (Other Seg)", "Lost (System)", "Net Change">>

\* one iteration of "for segment in all_segments"
SummaryRow(snapshot, segment, metric) ==
    LET Where(P(_)) == SelectSeq(snapshot, P)
        base_entities == Where(LAMBDA r : ElementwiseEq(r.base_segment, segment))
        curr_entities == Where(LAMBDA r : ElementwiseEq(r.current_segment, segment))
        retained == Where(LAMBDA r :
                        /\ ElementwiseEq(r.base_segment, segment)
                        /\ ElementwiseEq(r.current_segment, segment))
        new_system == Where(LAMBDA r :
                        /\ ElementwiseEq(r.current_segment, segment)
                        /\ isna(r.base_segment))
        added == Where(LAMBDA r :
                        /\ ElementwiseEq(r.current_segment, segment)
                        /\ ~isna(r.base_segment)
                        /\ ElementwiseNe(r.base_segment, segment))
        lost_other == Where(LAMBDA r :
                        /\ ElementwiseEq(r.base_segment, segment)
                        /\ ~isna(r.current_segment)
                        /\ ElementwiseNe(r.current_segment, segment))
        lost_system == Where(LAMBDA r :
                        /\ ElementwiseEq(r.base_segment, segment)
                        /\ isna(r.current_segment))
        Base == calculate_metric(base_entities, "base", metric)
        Current == calculate_metric(curr_entities, "current", metric)
    IN  ("Segment" :> segment) @@ ("Base" :> Base) @@ ("Current" :> Current)
        @@ ("Retained" :> calculate_metric(retained, "current", metric))
        @@ ("New (System)" :> calculate_metric(new_system, "current", metric))
        @@ ("Added (Other Seg)" :> calculate_metric(added, "current", metric))
        @@ ("Lost (Other Seg)" :> calculate_metric(lost_other, "base", metric))
        @@ ("Lost (System)" :> calculate_metric(lost_system, "base", metric))
        @@ ("Net Change" :> Current - Base)

\* totals[col] = df[col].sum() for every column but Segment
TotalsRow(df) ==
    [col \in {"Segment"} \cup Range(SummaryNumericColumns) |->
        IF col = "Segment" THEN "TOTAL"
        ELSE SumSeq(Tuple([i \in DOMAIN df |-> df[i][col]]))]

\* generate_summary_view: the rows returned, or raised.  Without any
\* segment the frame has no columns, the totals row has only its Segment
\* cell, and the lookup of 'Base' for the closing print raises KeyError
generate_summary_view(snapshot, metric) ==
    LET all_segments == SortedUnion(snapshot)
        df == Tuple([k \in DOMAIN all_segments |->
                        SummaryRow(snapshot, all_segments[k], metric)])
    IN  IF all_segments = <<>> THEN [raised |-> TRUE, result |-> <<>>]
        ELSE [raised |-> FALSE, result |-> Append(df, TotalsRow(df))]

(* src/analysis/matrix.py *)

\* matrix.sum(axis=1) without the last column
RowSumsWithoutLast(cell, index, columns) ==
    [r \in Range(index) |->
        SumSeq(Tuple([k \in 1..(Len(columns) - 1) |-> cell[r][columns[k]]]))]

\* matrix.sum(axis=1): for every row, the sum over the columns
RowSums(cell, index, columns) ==
    [r \in Range(index) |->
        SumSeq(Tuple([k \in DOMAIN columns |-> cell[r][columns[k]]]))]

\* matrix.sum(axis=0) without the last row
ColumnSumsWithoutLast(cell, index, columns) ==
    [c \in Range(columns) |->
        SumSeq(Tuple([k \in 1..(Len(index) - 1) |-> cell[index[k]][c]]))]

\* matrix.sum(axis=0): for every column, the sum over the rows
ColumnSums(cell, index, columns) ==
    [c \in Range(columns) |->
        SumSeq(Tuple([k \in DOMAIN index |-> cell[index[k]][c]]))]

\* generate_movement_matrix: the row labels (the 'Base -> Current' column
\* after reset_index), the column labels and the cells
generate_movement_matrix(snapshot, metric) ==
    LET base_segments == SortedSegments(snapshot, "base_segment")
        curr_segments == SortedSegments(snapshot, "current_segment")
        all_base == Append(base_segments, "New")
        all_curr == Append(curr_segments, "Lost")
        movement(b, c) == SelectSeq(snapshot, LAMBDA r :
                              /\ ElementwiseEq(r.base_segment, b)
                              /\ ElementwiseEq(r.current_segment, c))
        lost(b) == SelectSeq(snapshot, LAMBDA r :
                              /\ ElementwiseEq(r.base_segment, b)
                              /\ isna(r.current_segment))
        new(c) == SelectSeq(snapshot, LAMBDA r :
                              /\ ElementwiseEq(r.current_segment, c)
                              /\ isna(r.base_segment))
        filled == [b \in Range(all_base) |-> [c \in Range(all_curr) |->
                    IF b \in Range(base_segments) /\ c \in Range(curr_segments)
                        THEN calculate_metric(movement(b, c), "current", metric)
                    ELSE IF b \in Range(base_segments)
                        THEN calculate_metric(lost(b), "base", metric)
                    ELSE IF c \in Range(curr_segments)
                        THEN calculate_metric(new(c), "current", metric)
                    ELSE 0]]
        total_out == RowSums(filled, all_base, all_curr)
        columns == Append(all_curr, "Total Out")
        with_out == [b \in Range(all_base) |->
                        filled[b] @@ ("Total Out" :> total_out[b])]
        total_in == ColumnSums(with_out, all_base, columns)
    IN  [index |-> Append(all_base, "Total In"),
         columns |-> columns,
         cell |-> with_out @@ ("Total In" :> total_in)]

(* src/analysis/sankey.py *)

\* label_to_idx[label]: the (last) position of the label, from 0
label_to_idx(all_labels, label) ==
    (CHOOSE i \in DOMAIN all_labels :
        /\ all_labels[i] = label
        /\ \A j \in DOMAIN all_labels : all_labels[j] = label => j <= i) - 1

\* "if value > 0:" and the three appends
EdgeIf(source, target, value) ==
    IF value > 0 THEN << [source |-> source, target |-> target, value |-> value] >>
    ELSE <<>>

\* generate_sankey_data: the node labels and the edges in the order of the
\* appends (sources, targets and values are the columns of edges)
generate_sankey_data(snapshot, metric) ==
    LET base_segments == SortedSegments(snapshot, "base_segment")
        curr_segments == SortedSegments(snapshot, "current_segment")
        base_labels == Tuple([k \in DOMAIN base_segments |->
                                base_segments[k] \o " (Base)"])
        curr_labels == Tuple([k \in DOMAIN curr_segments |->
                                curr_segments[k] \o " (Current)"])
        all_labels == base_labels \o curr_labels \o <<"New (System)", "Lost (System)">>
        idx(label) == label_to_idx(all_labels, label)
        flow(b, c) == SelectSeq(snapshot, LAMBDA r :
                          /\ ElementwiseEq(r.base_segment, b)
                          /\ ElementwiseEq(r.current_segment, c))
        lost(b) == SelectSeq(snapshot, LAMBDA r :
                          /\ ElementwiseEq(r.base_segment, b)
                          /\ isna(r.current_segment))
        new(c) == SelectSeq(snapshot, LAMBDA r :
                          /\ ElementwiseEq(r.current_segment, c)
                          /\ isna(r.base_segment))
        FromBase(b) ==
            Concat(Tuple([k \in DOMAIN curr_segments |->
                EdgeIf(idx(b \o " (Base)"), idx(curr_segments[k] \o " (Current)"),
                       calculate_metric(flow(b, curr_segments[k]), "current", metric))]))
            \o EdgeIf(idx(b \o " (Base)"), idx("Lost (System)"),
                      calculate_metric(lost(b), "base", metric))
        edges ==
            Concat(Tuple([k \in DOMAIN base_segments |-> FromBase(base_segments[k])]))
            \o Concat(Tuple([k \in DOMAIN curr_segments |->
                EdgeIf(idx("New (System)"), idx(curr_segments[k] \o " (Current)"),
                       calculate_metric(new(curr_segments[k]), "current", metric))]))
    IN  [labels |-> all_labels,
         sources |-> Tuple([k \in DOMAIN edges |-> edges[k].source]),
         targets |-> Tuple([k \in DOMAIN edges |-> edges[k].target]),
         values |-> Tuple([k \in DOMAIN edges |-> edges[k].value])]

(* src/analysis/cohort.py *)

\* int(seg[3:]): the number that follows the three-letter prefix
SegNum ==
    ("SEG01" :> 1) @@ ("SEG02" :> 2) @@ ("SEG1" :> 1) @@ ("SEG10" :> 10) @@ ("SEG11" :> 11)
    @@ ("SEG15" :> 15) @@ ("SEG16" :> 16) @@ ("SEG18" :> 18)

\* the loop over the cohort without the filter on the status
MovedOfEveryRow(cohort_data, base_seg) ==
    LET moved == SelectSeq(cohort_data, LAMBDA r : ~isna(r.current_segment))
    IN  [up |-> Len(SelectSeq(moved, LAMBDA r :
                        SegNum[r.current_segment] < SegNum[base_seg])),
         down |-> Len(SelectSeq(moved, LAMBDA r :
                        ~(SegNum[r.current_segment] < SegNum[base_seg])))]

\* the loop with a current number equal to the base number counted as up
MovedUpOnEqual(cohort_data, base_seg) ==
    LET moved == SelectSeq(cohort_data, LAMBDA r :
                    r.status = "Moved Internal" /\ ~isna(r.current_segment))
    IN  [up |-> Len(SelectSeq(moved, LAMBDA r :
                        SegNum[r.current_segment] <= SegNum[base_seg])),
         down |-> Len(SelectSeq(moved, LAMBDA r :
                        ~(SegNum[r.current_segment] <= SegNum[base_seg])))]

\* the loop over the Moved Internal rows of the cohort: Moved Up when the
\* current number is smaller than the base number, Moved Down otherwise
Moved(cohort_data, base_seg) ==
    LET moved == SelectSeq(cohort_data, LAMBDA r :
                    r.status = "Moved Internal" /\ ~isna(r.current_segment))
    IN  [up |-> Len(SelectSeq(moved, LAMBDA r :
                        SegNum[r.current_segment] < SegNum[base_seg])),
         down |-> Len(SelectSeq(moved, LAMBDA r :
                        ~(SegNum[r.current_segment] < SegNum[base_seg])))]

\* x / size * 100 if size > 0 else 0, as a fraction
Rate(x, size) ==
    IF size > 0 THEN [num |-> x * 100, den |-> size] ELSE [num |-> 0, den |-> 1]

\* one iteration of "for base_seg in base_segments"
Cohort(snapshot, base_seg) ==
    LET cohort_data == SelectSeq(snapshot, LAMBDA r :
                            ElementwiseEq(r.base_segment, base_seg))
        size == Len(cohort_data)
        retained == Len(SelectSeq(cohort_data, LAMBDA r : r.status = "Retained"))
        churned == Len(SelectSeq(cohort_data, LAMBDA r : r.status = "Lost (System)"))
        moved == Moved(cohort_data, base_seg)
    IN  ("Base Segment" :> base_seg) @@ ("Cohort Size" :> size)
        @@ ("Retained" :> retained) @@ ("Moved Up" :> moved.up)
        @@ ("Moved Down" :> moved.down) @@ ("Churned" :> churned)
        @@ ("Retention Rate" :> Rate(retained, size))
        @@ ("Churn Rate" :> Rate(churned, size))

\* identify_segment_cohorts: the cohort rows, or raised.  Without any base
\* segment the frame has no columns and the lookup of 'Retention Rate' for
\* the closing print raises KeyError
identify_segment_cohorts(snapshot) ==
    LET base_segments == SortedSegments(snapshot, "base_segment")
    IN  IF base_segments = <<>> THEN [raised |-> TRUE, result |-> <<>>]
        ELSE [raised |-> FALSE,
              result |-> Tuple([k \in DOMAIN base_segments |->
                                    Cohort(snapshot, base_segments[k])])]

(* src/analysis/risk.py: entity-level and segment-level risk scores        *)
(*                                                                         *)
(* Revenues are whole amounts; a percentage is compared with a threshold   *)
(* by cross-multiplication, which is what the floating-point quotient      *)
(* yields for such amounts.                                                *)

\* the metrics whose columns contain '_rev_wf'
RevenueMetrics == {"A_rev_wf"}

\* [col for col in snapshot.columns if col.startswith(prefix) and '_rev_wf' in col]
rev_cols(snapshot, prefix) ==
    {prefix \o metric : metric \in RevenueMetrics} \cap SnapshotColumns(snapshot)

\* row[cols].sum()
RECURSIVE RowSum(_, _)
RowSum(row, cols) ==
    IF cols = {} THEN 0
    ELSE LET c == CHOOSE c \in cols : TRUE
         IN  row[c] + RowSum(row, cols \ {c})

\* ((curr_rev - base_rev) / base_rev) * 100 < threshold, for base_rev > 0
PctBelow(base_rev, curr_rev, threshold) ==
    (curr_rev - base_rev) * 100 < threshold * base_rev

\* the levels with the thresholds themselves left to the level below
RiskLevelAbove(risk_score) ==
    IF risk_score > 60 THEN "High"
    ELSE IF risk_score > 30 THEN "Medium"
    ELSE "Low"

\* risk_level from risk_score
RiskLevel(risk_score) ==
    IF risk_score >= 60 THEN "High"
    ELSE IF risk_score >= 30 THEN "Medium"
    ELSE "Low"

\* Factor 1: Revenue decline (0-40 points)
RevenueDecline(base_rev, curr_rev) ==
    IF base_rev > 0
    THEN IF PctBelow(base_rev, curr_rev, -20) THEN 40
         ELSE IF PctBelow(base_rev, curr_rev, -10) THEN 25
         ELSE IF PctBelow(base_rev, curr_rev, 0) THEN 10
         ELSE 0
    ELSE 0

\* Factor 2 with the two limits counted as low
LowRevenueInclusive(curr_rev) ==
    IF curr_rev <= 5000 THEN 20
    ELSE IF curr_rev <= 10000 THEN 10
    ELSE 0

\* Factor 2: Low revenue (0-20 points)
LowRevenue(curr_rev) ==
    IF curr_rev < 5000 THEN 20
    ELSE IF curr_rev < 10000 THEN 10
    ELSE 0

\* Factor 3: Segment tier (0-20 points)
SegmentTier(curr_seg) ==
    IF SegNum[curr_seg] >= 16 THEN 20
    ELSE IF SegNum[curr_seg] >= 11 THEN 10
    ELSE 0

\* Factor 4: Recent downward movement (0-20 points)
RecentDowngrade(row) ==
    IF /\ row.status = "Moved Internal"
       /\ ~isna(row.base_segment) /\ ~isna(row.current_segment)
       /\ SegNum[row.current_segment] > SegNum[row.base_segment]
    THEN 20 ELSE 0

\* one iteration of "for _, row in current_entities.iterrows()";
\* risk_factors is kept as the list that is joined, a decline without its
\* figure
EntityRisk(row, base_rev_cols, curr_rev_cols) ==
    LET base_rev == RowSum(row, base_rev_cols)
        curr_rev == RowSum(row, curr_rev_cols)
        f1 == RevenueDecline(base_rev, curr_rev)
        f2 == LowRevenue(curr_rev)
        f3 == SegmentTier(row.current_segment)
        f4 == RecentDowngrade(row)
        risk_score == f1 + f2 + f3 + f4
        risk_factors ==
            (IF f1 > 0 THEN <<"Revenue declined">> ELSE <<>>)
            \o (IF f2 = 20 THEN <<"Low revenue">>
                ELSE IF f2 = 10 THEN <<"Below average revenue">> ELSE <<>>)
            \o (IF f3 = 20 THEN <<"In bottom-tier segment">>
                ELSE IF f3 = 10 THEN <<"In lower-tier segment">> ELSE <<>>)
            \o (IF f4 > 0 THEN <<"Moved to lower segment">> ELSE <<>>)
    IN  [entity |-> row.entity,
         current_segment |-> row.current_segment,
         current_revenue |-> curr_rev,
         risk_score |-> risk_score,
         risk_level |-> RiskLevel(risk_score),
         risk_factors |-> IF risk_factors = <<>> THEN "None" ELSE risk_factors]

\* the risk rows in the order of the snapshot, before the sort
risk_scores(snapshot) ==
    LET current_entities ==
            SelectSeq(snapshot, LAMBDA r : ~isna(r.current_segment))
        base_rev_cols == rev_cols(snapshot, "base_")
        curr_rev_cols == rev_cols(snapshot, "current_")
    IN  Tuple([i \in DOMAIN current_entities |->
                EntityRisk(current_entities[i], base_rev_cols, curr_rev_cols)])

\* one row put into a frame that is in descending order of column by; a row
\* of equal value goes behind its equals (ties_last) or in front of them
RECURSIVE InsertBy(_, _, _, _)
InsertBy(df, row, by, ties_last) ==
    IF df = <<>> THEN <<row>>
    ELSE IF Head(df)[by] > row[by] \/ (ties_last /\ Head(df)[by] = row[by])
         THEN <<Head(df)>> \o InsertBy(Tail(df), row, by, ties_last)
         ELSE <<row>> \o df

RECURSIVE SortBy(_, _, _)
SortBy(df, by, ties_last) ==
    IF df = <<>> THEN <<>>
    ELSE InsertBy(SortBy(SubSeq(df, 1, Len(df) - 1), by, ties_last),
                  df[Len(df)], by, ties_last)

\* df.sort_values(by, ascending=False): the sort kind is left at its
\* default 'quicksort', which is not stable, so the order among rows of
\* equal value is the library's choice.  Of the orders it may return the
\* model keeps two: equal rows in the order of the frame, and reversed.
sort_values(df, by) == {SortBy(df, by, TRUE), SortBy(df, by, FALSE)}

\* calculate_churn_risk_score: the frames the call may return, or raised.
\* Without any row with a current segment pd.DataFrame([]) has no column
\* and the sort on 'risk_score' raises KeyError.
calculate_churn_risk_score(snapshot) ==
    LET rows == risk_scores(snapshot)
    IN  IF rows = <<>> THEN {[raised |-> TRUE, result |-> <<>>]}
        ELSE {[raised |-> FALSE, result |-> risk_df] :
                    risk_df \in sort_values(rows, "risk_score")}

\* round(x, 2) of the quotient num / den (den > 0), in hundredths
Round2(num, den) == (2 * 100 * num + den) \div (2 * den)

\* the level test of the segment score with the entity thresholds swapped
SegmentRiskLevelSwapped(risk_score) ==
    IF risk_score >= 30 THEN "High"
    ELSE IF risk_score >= 60 THEN "Medium"
    ELSE "Low"

\* 'High' if risk_score >= 60 else 'Medium' if risk_score >= 30 else 'Low'
SegmentRiskLevel(risk_score) ==
    IF risk_score >= 60 THEN "High"
    ELSE IF risk_score >= 30 THEN "Medium"
    ELSE "Low"

\* one iteration of "for segment in segments"
SegmentRisk(snapshot, segment) ==
    LET seg_data == SelectSeq(snapshot, LAMBDA r :
                        ElementwiseEq(r.current_segment, segment))
        base_in_segment == SelectSeq(snapshot, LAMBDA r :
                        ElementwiseEq(r.base_segment, segment))
        churned == Len(SelectSeq(base_in_segment, LAMBDA r :
                        r.status = "Lost (System)"))
        size == Len(base_in_segment)
        churn_rate == Rate(churned, size)
        base_rev_cols == rev_cols(snapshot, "base_")
        curr_rev_cols == rev_cols(snapshot, "current_")
        base_seg_rev ==
            SumSeq(Tuple([i \in DOMAIN base_in_segment |->
                            RowSum(base_in_segment[i], base_rev_cols)]))
        curr_seg_rev ==
            SumSeq(Tuple([i \in DOMAIN seg_data |->
                            RowSum(seg_data[i], curr_rev_cols)]))
        rev_change_pct ==
            IF base_seg_rev > 0
            THEN [num |-> (curr_seg_rev - base_seg_rev) * 100, den |-> base_seg_rev]
            ELSE [num |-> 0, den |-> 1]
        churn_points ==
            IF churn_rate.num > 10 * churn_rate.den THEN 40
            ELSE IF churn_rate.num > 5 * churn_rate.den THEN 20
            ELSE 0
        revenue_points ==
            IF rev_change_pct.num < -15 * rev_change_pct.den THEN 40
            ELSE IF rev_change_pct.num < -5 * rev_change_pct.den THEN 20
            ELSE 0
        tier_points == IF SegNum[segment] >= 15 THEN 20 ELSE 0
        risk_score == churn_points + revenue_points + tier_points
    IN  ("Segment" :> segment) @@ ("Current Size" :> Len(seg_data))
        @@ ("Churn Rate %" :> Round2(churn_rate.num, churn_rate.den))
        @@ ("Revenue Change %" :> Round2(rev_change_pct.num, rev_change_pct.den))
        @@ ("Risk Score" :> risk_score)
        @@ ("Risk Level" :> SegmentRiskLevel(risk_score))

\* identify_at_risk_segments: the frames the call may return, or raised.
\* Without any current segment pd.DataFrame([]) has no column and the sort
\* on 'Risk Score' raises KeyError.
identify_at_risk_segments(snapshot) ==
    LET segments == SortedSegments(snapshot, "current_segment")
        rows == Tuple([k \in DOMAIN segments |->
                        SegmentRisk(snapshot, segments[k])])
    IN  IF rows = <<>> THEN {[raised |-> TRUE, result |-> <<>>]}
        ELSE {[raised |-> FALSE, result |-> risk_df] :
                    risk_df \in sort_values(rows, "Risk Score")}

(* src/analysis/cohort.py: revenue of the cohorts *)

\* x / y if the guard holds else 0, as a fraction
Quotient(x, y, guard) ==
    IF guard THEN [num |-> x, den |-> y] ELSE [num |-> 0, den |-> 1]

\* one iteration of "for base_seg in base_segments"
CohortRevenue(snapshot, base_seg) ==
    LET cohort_data == SelectSeq(snapshot, LAMBDA r :
                            ElementwiseEq(r.base_segment, base_seg))
        base_revenue ==
            SumSeq(Tuple([i \in DOMAIN cohort_data |->
                            RowSum(cohort_data[i], rev_cols(snapshot, "base_"))]))
        current_revenue ==
            SumSeq(Tuple([i \in DOMAIN cohort_data |->
                            RowSum(cohort_data[i], rev_cols(snapshot, "current_"))]))
        n == Len(cohort_data)
    IN  ("Cohort" :> base_seg) @@ ("Entities" :> n)
        @@ ("Base Revenue" :> base_revenue)
        @@ ("Current Revenue" :> current_revenue)
        @@ ("Revenue Change" :> current_revenue - base_revenue)
        @@ ("Revenue Change %" :>
                Quotient((current_revenue - base_revenue) * 100, base_revenue,
                         base_revenue > 0))
        @@ ("Avg Revenue per Entity (Base)" :> Quotient(base_revenue, n, n > 0))
        @@ ("Avg Revenue per Entity (Current)" :> Quotient(current_revenue, n, n > 0))

\* calculate_cohort_revenue_metrics: the cohort rows, or raised.  Without
\* any base segment the frame has no column and the lookup of
\* 'Base Revenue' for the closing print raises KeyError
calculate_cohort_revenue_metrics(snapshot) ==
    LET base_segments == SortedSegments(snapshot, "base_segment")
    IN  IF base_segments = <<>> THEN [raised |-> TRUE, result |-> <<>>]
        ELSE [raised |-> FALSE,
              result |-> Tuple([k \in DOMAIN base_segments |->
                                    CohortRevenue(snapshot, base_segments[k])])]

(* src/analysis/metrics.py: the product mix *)

\* col.replace('current_', '').replace('_rev_wf', '')
ProductName == ("A_rev_wf" :> "A")

\* (revenue / total_revenue * 100).round(2), in hundredths; the quotient
\* by a zero total is NaN or infinite and does not raise
Percentage(revenue, total_revenue) ==
    IF total_revenue = 0 THEN (IF revenue = 0 THEN NaN ELSE "inf")
    ELSE IF total_revenue > 0 THEN Round2(revenue * 100, total_revenue)
    ELSE Round2(-(revenue * 100), -total_revenue)

\* calculate_product_mix(snapshot) for all segments: the frames the call
\* may return; no snapshot makes it raise
calculate_product_mix(snapshot) ==
    LET df == SelectSeq(snapshot, LAMBDA r : ~isna(r.current_segment))
        product_cols ==
            SelectSeq(<<"A_rev_wf">>, LAMBDA m :
                m \in RevenueMetrics /\ ("current_" \o m) \in SnapshotColumns(snapshot))
        Revenue(m) == SumCol(df, "current_" \o m)
        total_revenue ==
            SumSeq(Tuple([k \in DOMAIN product_cols |-> Revenue(product_cols[k])]))
        rows == Tuple([k \in DOMAIN product_cols |->
                    [Product |-> ProductName[product_cols[k]],
                     Revenue |-> Revenue(product_cols[k]),
                     Percentage |-> Percentage(Revenue(product_cols[k]),
                                               total_revenue)]])
    IN  IF product_cols = <<>> THEN {[raised |-> FALSE, result |-> <<>>]}
        ELSE {[raised |-> FALSE, result |-> mix_df] :
                    mix_df \in sort_values(rows, "Revenue")}

(* Calls of the views.  A view is computed from the snapshot the preceding *)
(* create_snapshot returned; its record keeps the tables of that build.    *)

HasSnapshot == call.op = "create_snapshot" /\ ~call.raised

ViewCall(op, metric, raised, result) ==
    /\ call' = [op |-> op, snapshot |-> call.result,
                base_seg |-> call.base_seg, curr_seg |-> call.curr_seg,
                metric |-> metric, raised |-> raised, result |-> result]
    /\ UNCHANGED <<ENABLE_CACHING, TTM_MONTHS, ioMode, disk, saved, clean>>

GenerateSummaryViewCall(metric) ==
    /\ HasSnapshot
    /\ LET r == generate_summary_view(call.result, metric)
       IN  ViewCall("generate_summary_view", metric, r.raised, r.result)

GenerateMovementMatrixCall(metric) ==
    /\ HasSnapshot
    /\ ViewCall("generate_movement_matrix", metric, FALSE,
                generate_movement_matrix(call.result, metric))

GenerateSankeyDataCall(metric) ==
    /\ HasSnapshot
    /\ ViewCall("generate_sankey_data", metric, FALSE,
                generate_sankey_data(call.result, metric))

IdentifySegmentCohortsCall ==
    /\ HasSnapshot
    /\ LET r == identify_segment_cohorts(call.result)
       IN  ViewCall("identify_segment_cohorts", "count", r.raised, r.result)

CalculateChurnRiskScoreCall ==
    /\ HasSnapshot
    /\ \E r \in calculate_churn_risk_score(call.result) :
            ViewCall("calculate_churn_risk_score", "count", r.raised, r.result)

IdentifyAtRiskSegmentsCall ==
    /\ HasSnapshot
    /\ \E r \in identify_at_risk_segments(call.result) :
            ViewCall("identify_at_risk_segments", "count", r.raised, r.result)

CalculateCohortRevenueMetricsCall ==
    /\ HasSnapshot
    /\ LET r == calculate_cohort_revenue_metrics(call.result)
       IN  ViewCall("calculate_cohort_revenue_metrics", "count", r.raised, r.result)

CalculateProductMixCall ==
    /\ HasSnapshot
    /\ \E r \in calculate_product_mix(call.result) :
            ViewCall("calculate_product_mix", "count", r.raised, r.result)

\* calculate_metric on a subset of the snapshot
CalculateMetricCall(df, period, metric) ==
    /\ HasSnapshot
    /\ call' = [op |-> "calculate_metric", df |-> df, period |-> period,
                metric |-> metric, result |-> calculate_metric(df, period, metric)]
    /\ UNCHANGED <<ENABLE_CACHING, TTM_MONTHS, ioMode, disk, saved, clean>>

\* the subsets the views pass: the rows of one status, all rows, no row
Subsets(snapshot) ==
    {snapshot, <<>>}
    \cup {SelectSeq(snapshot, LAMBDA r : r.status = s) : s \in Statuses}

(* SpecViews: a first build over assignment tables of at most MaxRows rows *)
(* in all, followed by one view of the snapshot                            *)

\* revenue with credits: sums that are negative, and sums that cancel
MetricsWithCredits ==
    << Met(101, 202309, -3, 30), Met(101, 202410, -2, 20),
       Met(102, 202309, 4, 40), Met(102, 202309, -4, 10),
       Met(102, 202410, 5, 50) >>

ViewBuild ==
    /\ call = NoCall
    /\ \E nb \in 1..MaxRows :
       \E nc \in 1..(MaxRows - nb) :
       \E current_month \in CurrMonths :
       \E base_seg \in SeqsOfLen(SegRows(BaseMonth), nb) :
       \E curr_seg \in SeqsOfLen(SegRows(current_month), nc) :
            CreateSnapshotCall(base_seg, curr_seg, MetricsWithCredits)

\* a current table that writes the code of segment 1 without its padding
UnpaddedCodeBuild ==
    /\ call = NoCall
    /\ \E current_month \in CurrMonths :
            CreateSnapshotCall(
                << Seg(101, BaseMonth, "SEG01"), Seg(102, BaseMonth, "SEG02") >>,
                << Seg(101, current_month, "SEG1"), Seg(102, current_month, "SEG1") >>,
                MetricsWithCredits)

NextViews ==
    \/ ViewBuild
    \/ UnpaddedCodeBuild
    \/ \E metric \in MetricSelectors : GenerateSummaryViewCall(metric)
    \/ \E metric \in MetricSelectors : GenerateMovementMatrixCall(metric)
    \/ \E metric \in MetricSelectors : GenerateSankeyDataCall(metric)
    \/ IdentifySegmentCohortsCall
    \/ CalculateCohortRevenueMetricsCall
    \/ CalculateProductMixCall
    \/ CalculateChurnRiskScoreCall
    \/ IdentifyAtRiskSegmentsCall
    \/ /\ HasSnapshot
       /\ \E period \in Periods, metric \in MetricSelectors :
          \E df \in Subsets(call.result) : CalculateMetricCall(df, period, metric)

SpecViews == Init /\ [][NextViews]_vars

-----------------------------------------------------------------------------
(* Properties of the views *)

\* the sum of a column over the first n rows of a view
RECURSIVE ColumnTotal(_, _, _)
ColumnTotal(df, col, n) ==
    IF n = 0 THEN 0 ELSE df[n][col] + ColumnTotal(df, col, n - 1)

\* the segments of a snapshot: every non-null base or current segment
SnapshotSegments(snapshot) ==
    ( {snapshot[i].base_segment : i \in DOMAIN snapshot}
      \cup {snapshot[i].current_segment : i \in DOMAIN snapshot} ) \ {NaN}

SegmentRank(s) == CHOOSE k \in DOMAIN SegmentOrder : SegmentOrder[k] = s

\* a summary whose last row is TOTAL with the column sums of the rows above
\* it, which are the segments of the snapshot in sorted order, each with
\* Net Change = Current - Base
SummaryWellFormed(snapshot, df) ==
    LET n == Len(df)
    IN  /\ n >= 1
        /\ df[n]["Segment"] = "TOTAL"
        /\ \A col \in Range(SummaryNumericColumns) :
                df[n][col] = ColumnTotal(df, col, n - 1)
        /\ {df[i]["Segment"] : i \in 1..(n - 1)} = SnapshotSegments(snapshot)
        /\ \A i, j \in 1..(n - 1) :
                i < j => SegmentRank(df[i]["Segment"]) < SegmentRank(df[j]["Segment"])
        /\ \A i \in 1..(n - 1) :
                df[i]["Net Change"] = df[i]["Current"] - df[i]["Base"]

\* C14: for every snapshot and every metric selector, generate_summary_view
\* returns a table whose last row is the TOTAL row, each numeric column of
\* which is the sum of that column over the per-segment rows; the
\* per-segment rows are the sorted union of the base and current segments,
\* each with Net Change = Current - Base
C14_SummaryTotalRow ==
    call.op = "generate_summary_view" =>
        /\ ~call.raised
        /\ SummaryWellFormed(call.snapshot, call.result)

CountStatus(snapshot, status) ==
    Cardinality({i \in DOMAIN snapshot : snapshot[i].status = status})

\* C15: for a snapshot built from any base and current assignment tables,
\* the TOTAL row of generate_summary_view(snapshot, 'count') has Base = the
\* number of entities of the base table, Current = the number of entities
\* of the current table, Retained / New (System) / Lost (System) = the
\* number of snapshot rows of that status, and Net Change = Current - Base
C15_CountTotals ==
    ( /\ call.op = "generate_summary_view"
      /\ call.metric = "count"
      /\ ~call.raised )
    => LET total == call.result[Len(call.result)]
       IN  /\ total["Base"] = Cardinality(SegEntities(call.base_seg))
           /\ total["Current"] = Cardinality(SegEntities(call.curr_seg))
           /\ total["Retained"] = CountStatus(call.snapshot, "Retained")
           /\ total["New (System)"] = CountStatus(call.snapshot, "New (System)")
           /\ total["Lost (System)"] = CountStatus(call.snapshot, "Lost (System)")
           /\ total["Net Change"] = total["Current"] - total["Base"]

\* the sum of f over the set S
RECURSIVE SumOver(_, _)
SumOver(S, f) ==
    IF S = {} THEN 0
    ELSE LET x == CHOOSE y \in S : TRUE IN f[x] + SumOver(S \ {x}, f)

\* the rows (base segments and New) and the columns (current segments and
\* Lost) of a movement matrix, without its margins
MatrixRows(matrix) == Range(matrix.index) \ {"Total In"}
MatrixColumns(matrix) == Range(matrix.columns) \ {"Total Out"}

\* C16: for every snapshot and metric, the Total Out value of each base row
\* (base segments and New) of generate_movement_matrix is the sum of the
\* row's cells over the current segments and Lost, the Total In value of
\* each column is the sum of the column's cells over the base segments and
\* New, and the grand total of Total Out equals the grand total of Total In
C16_MatrixTotals ==
    call.op = "generate_movement_matrix" =>
        LET matrix == call.result
            rows == MatrixRows(matrix)
            columns == MatrixColumns(matrix)
        IN  /\ rows = Range(SortedSegments(call.snapshot, "base_segment")) \cup {"New"}
            /\ columns = Range(SortedSegments(call.snapshot, "current_segment"))
                            \cup {"Lost"}
            /\ \A r \in rows :
                matrix.cell[r]["Total Out"] = SumOver(columns, matrix.cell[r])
            /\ \A c \in columns :
                matrix.cell["Total In"][c]
                    = SumOver(rows, [r \in rows |-> matrix.cell[r][c]])
            /\ SumOver(rows, [r \in rows |-> matrix.cell[r]["Total Out"]])
                    = SumOver(columns, matrix.cell["Total In"])

\* a matrix of a revenue metric with a base segment that lost revenue to
\* Lost, revenue that is New, and a grand total that is not zero
C16_Witness ==
    /\ call.op = "generate_movement_matrix"
    /\ call.metric = "A_rev_wf"
    /\ \E r \in MatrixRows(call.result) \ {"New"} : call.result.cell[r]["Lost"] # 0
    /\ \E c \in MatrixColumns(call.result) \ {"Lost"} : call.result.cell["New"][c] # 0
    /\ call.result.cell["Total In"]["Total Out"] # 0

\* C17: for every snapshot, the sum of all cells of
\* generate_movement_matrix(snapshot, 'count') (rows = base segments and
\* New, columns = current segments and Lost, without the Total Out and
\* Total In margins) is the number of rows of the snapshot: every snapshot
\* row is counted in exactly one cell
C17_CountCellsCoverSnapshot ==
    (call.op = "generate_movement_matrix" /\ call.metric = "count") =>
        LET matrix == call.result
            rows == MatrixRows(matrix)
            columns == MatrixColumns(matrix)
        IN  SumOver(rows, [r \in rows |-> SumOver(columns, matrix.cell[r])])
                = Len(call.snapshot)

\* C18: calculate_metric never raises: for an empty subset it returns 0
\* for any period and metric; for metric 'count' it returns the number of
\* rows; for a named metric whose column <period>_<metric> is absent it
\* returns 0; otherwise it returns the sum of that column over the subset
C18_CalculateMetric ==
    call.op = "calculate_metric" =>
        LET df == call.df
            rename == IF call.period = "base" THEN base_rename ELSE curr_rename
        IN  call.result =
                IF df = <<>> THEN 0
                ELSE IF call.metric = "count" THEN Len(df)
                ELSE IF call.metric \notin DOMAIN rename THEN 0
                ELSE ColumnTotal(df, rename[call.metric], Len(df))

\* a base-period revenue sum over several rows that is not zero and differs
\* from the current-period sum of the same rows
C18_Witness ==
    /\ call.op = "calculate_metric"
    /\ call.period = "base" /\ call.metric = "A_rev_wf"
    /\ Len(call.df) >= 2
    /\ call.result # 0
    /\ call.result # ColumnTotal(call.df, "current_A_rev_wf", Len(call.df))

\* the edges of a sankey result from the node labelled source_label to the
\* node labelled target_label
EdgesBetween(sankey, source_label, target_label) ==
    {k \in DOMAIN sankey.sources :
        /\ k \in DOMAIN sankey.targets
        /\ sankey.sources[k] + 1 \in DOMAIN sankey.labels
        /\ sankey.targets[k] + 1 \in DOMAIN sankey.labels
        /\ sankey.labels[sankey.sources[k] + 1] = source_label
        /\ sankey.labels[sankey.targets[k] + 1] = target_label}

\* a flow of nonzero value has exactly one edge, carrying that value; a
\* flow of value zero has none
FlowHasItsEdge(sankey, source_label, target_label, value) ==
    LET edges == EdgesBetween(sankey, source_label, target_label)
    IN  IF value = 0 THEN edges = {}
        ELSE /\ Cardinality(edges) = 1
             /\ \A k \in edges : sankey.values[k] = value

\* C19: for every snapshot and metric, the edge list of
\* generate_sankey_data has one edge for every base->current, base->Lost
\* (System) and New (System)->current flow whose metric value is nonzero
\* (negative sums of a named metric included) and no edge for a flow whose
\* value is zero; sources, targets and values have equal length and every
\* source / target index refers to a label of the node list
C19_SankeyEdges ==
    call.op = "generate_sankey_data" =>
        LET sankey == call.result
            snapshot == call.snapshot
            metric == call.metric
            base_segments == Range(SortedSegments(snapshot, "base_segment"))
            curr_segments == Range(SortedSegments(snapshot, "current_segment"))
            Rows(P(_)) == SelectSeq(snapshot, P)
        IN  /\ Len(sankey.sources) = Len(sankey.targets)
            /\ Len(sankey.targets) = Len(sankey.values)
            /\ \A k \in DOMAIN sankey.sources :
                    sankey.sources[k] \in 0..(Len(sankey.labels) - 1)
            /\ \A k \in DOMAIN sankey.targets :
                    sankey.targets[k] \in 0..(Len(sankey.labels) - 1)
            /\ \A b \in base_segments, c \in curr_segments :
                    FlowHasItsEdge(sankey, b \o " (Base)", c \o " (Current)",
                        calculate_metric(
                            Rows(LAMBDA r : r.base_segment = b /\ r.current_segment = c),
                            "current", metric))
            /\ \A b \in base_segments :
                    FlowHasItsEdge(sankey, b \o " (Base)", "Lost (System)",
                        calculate_metric(
                            Rows(LAMBDA r : r.base_segment = b /\ isna(r.current_segment)),
                            "base", metric))
            /\ \A c \in curr_segments :
                    FlowHasItsEdge(sankey, "New (System)", c \o " (Current)",
                        calculate_metric(
                            Rows(LAMBDA r : r.current_segment = c /\ isna(r.base_segment)),
                            "current", metric))

\* C20: for every cohort row produced by identify_segment_cohorts,
\* Retained + Moved Up + Moved Down + Churned = Cohort Size: each entity of
\* the cohort is counted in exactly one of Retained, moved (up or down) and
\* Churned, and Moved Up + Moved Down is the number of the cohort's Moved
\* Internal rows
C20_CohortPartition ==
    (call.op = "identify_segment_cohorts" /\ ~call.raised) =>
        \A k \in DOMAIN call.result :
            LET cohort == call.result[k]
                members == {i \in DOMAIN call.snapshot :
                    call.snapshot[i].base_segment = cohort["Base Segment"]}
                moved == {i \in members :
                    call.snapshot[i].status = "Moved Internal"}
            IN  /\ cohort["Cohort Size"] = Cardinality(members)
                /\ cohort["Retained"] + cohort["Moved Up"] + cohort["Moved Down"]
                        + cohort["Churned"] = cohort["Cohort Size"]
                /\ cohort["Moved Up"] + cohort["Moved Down"] = Cardinality(moved)

\* a cohort of several rows of which one moved up and another was retained
\* or churned
C20_Witness ==
    /\ call.op = "identify_segment_cohorts" /\ ~call.raised
    /\ \E k \in DOMAIN call.result :
        /\ call.result[k]["Cohort Size"] >= 2
        /\ call.result[k]["Moved Up"] >= 1
        /\ call.result[k]["Retained"] + call.result[k]["Churned"] >= 1

(* SpecRisk: a first build over the tables of a small book of entities in  *)
(* the lower tiers, followed by one of the two risk scores                 *)

RiskEntities == <<101, 102>>
RiskMonth == 2024 * 100 + 11

\* the trailing revenue of an entity in the base and in the current window:
\* declines of 60, 30, 20, 15, 10 and 5 percent, no change, no base revenue, a
\* base of credits, and current revenues around 5000 and 10000
RiskRevenues ==
    [e \in Range(RiskEntities) |->
        IF e = 101
        THEN { [base |-> 10000, current |-> 7000], [base |-> 10000, current |-> 8000],
               [base |-> 10000, current |-> 9000], [base |-> 10000, current |-> 10000],
               [base |-> 0, current |-> 5000], [base |-> 10000, current |-> 4000],
               [base |-> -1000, current |-> 500] }
        ELSE { [base |-> 10000, current |-> 8500], [base |-> 10000, current |-> 9500],
               [base |-> 4000, current |-> 4999] }]

\* the assignment tables of one month (for every entity a segment of the
\* lower tiers or no row), and a table whose only row has no segment code
RiskTables(month) ==
    LET RiskSegments == {"SEG10", "SEG11", "SEG15", "SEG16"}
        RiskAssignments == [Range(RiskEntities) -> RiskSegments \cup {"absent"}]
        RiskTable(assignment) ==
            LET present == SelectSeq(RiskEntities,
                                     LAMBDA e : assignment[e] # "absent")
            IN  Tuple([k \in DOMAIN present |->
                        Seg(present[k], month, assignment[present[k]])])
    IN  ( {RiskTable(a) : a \in RiskAssignments} \ {<<>>} )
        \cup {<< Seg(101, month, NaN) >>}

\* the tables a build is given: a book of two entities with one base-window
\* and one current-window row of metrics each; a segment of n entities of
\* which the last one has left by the current month; and one entity of
\* segment SEG18 whose revenue falls from 10000 to 7000
PortfolioSizes == {10, 20}

RiskDatasets ==
    LET book ==
            { [base_seg |-> base_seg, curr_seg |-> curr_seg,
               metrics |-> Concat(Tuple([k \in DOMAIN RiskEntities |->
                        << Met(RiskEntities[k], 202309,
                               revenue[RiskEntities[k]].base, 1),
                           Met(RiskEntities[k], 202410,
                               revenue[RiskEntities[k]].current, 1) >>]))] :
                 base_seg \in RiskTables(BaseMonth),
                 curr_seg \in RiskTables(RiskMonth),
                 revenue \in
                    { r \in [Range(RiskEntities) -> UNION Range(RiskRevenues)] :
                        \A e \in Range(RiskEntities) : r[e] \in RiskRevenues[e] } }
        portfolio ==
            { [base_seg |->
                    Tuple([i \in 1..n |-> Seg(200 + i, BaseMonth, "SEG15")]),
               curr_seg |->
                    Tuple([i \in 1..(n - 1) |-> Seg(200 + i, RiskMonth, "SEG15")]),
               metrics |->
                    << Met(201, 202309, 10000, 1), Met(201, 202410, 9000, 1) >>] :
                 n \in PortfolioSizes }
        example ==
            [base_seg |-> << Seg(101, BaseMonth, "SEG18") >>,
             curr_seg |-> << Seg(101, RiskMonth, "SEG18") >>,
             metrics |-> << Met(101, 202309, 10000, 1),
                            Met(101, 202410, 7000, 1) >>]
    IN  book \cup portfolio \cup {example}

RiskBuild ==
    /\ call = NoCall
    /\ \E d \in RiskDatasets :
            CreateSnapshotCall(d.base_seg, d.curr_seg, d.metrics)

NextRisk ==
    \/ RiskBuild
    \/ CalculateChurnRiskScoreCall
    \/ IdentifyAtRiskSegmentsCall

SpecRisk == Init /\ [][NextRisk]_vars

-----------------------------------------------------------------------------
(* Properties of the risk scores *)

\* C21: every entity row calculate_churn_risk_score produces has a
\* risk_score within 0..100, and its risk_level is 'High' exactly when the
\* score is at least 60, 'Medium' exactly when it is within 30..59 and
\* 'Low' exactly when it is below 30
C21_ScoreRangeAndLevel ==
    call.op = "calculate_churn_risk_score" =>
        \A i \in DOMAIN call.result :
            LET row == call.result[i]
            IN  /\ row.risk_score \in 0..100
                /\ (row.risk_level = "High") <=> (row.risk_score >= 60)
                /\ (row.risk_level = "Medium") <=> (row.risk_score \in 30..59)
                /\ (row.risk_level = "Low") <=> (row.risk_score < 30)

\* a frame with a row at the threshold 60 and a row at the threshold 30
C21_Witness ==
    /\ call.op = "calculate_churn_risk_score"
    /\ \E i, j \in DOMAIN call.result :
        /\ call.result[i].risk_score = 60 /\ call.result[i].risk_level = "High"
        /\ call.result[j].risk_score = 30 /\ call.result[j].risk_level = "Medium"

\* the position of an entity's row in a frame
RowOf(df, entity) == CHOOSE i \in DOMAIN df : df[i].entity = entity

\* C22: the frame calculate_churn_risk_score returns is in descending
\* order of risk_score, and rows of equal risk_score keep the order their
\* entities have in the snapshot (a stable sort)
C22_SortedWithTiesInInputOrder ==
    call.op = "calculate_churn_risk_score" =>
        \A i, j \in DOMAIN call.result :
            i < j =>
                /\ call.result[i].risk_score >= call.result[j].risk_score
                /\ call.result[i].risk_score = call.result[j].risk_score
                    => RowOf(call.snapshot, call.result[i].entity)
                        < RowOf(call.snapshot, call.result[j].entity)

\* the part of it that holds: the scores never increase down the frame
ScoresDescending ==
    call.op = "calculate_churn_risk_score" =>
        \A i, j \in DOMAIN call.result :
            i < j => call.result[i].risk_score >= call.result[j].risk_score

\* the analytics functions of the batch run and of the dashboard
AnalyticsFunctions ==
    {"generate_summary_view", "generate_movement_matrix", "generate_sankey_data",
     "identify_segment_cohorts", "calculate_cohort_revenue_metrics",
     "calculate_churn_risk_score", "identify_at_risk_segments",
     "calculate_product_mix"}

\* a snapshot without rows, or without a base segment, or without a
\* current segment
EmptyInput(snapshot) ==
    \/ snapshot = <<>>
    \/ \A i \in DOMAIN snapshot : isna(snapshot[i].base_segment)
    \/ \A i \in DOMAIN snapshot : isna(snapshot[i].current_segment)

\* C23: none of the analytics functions raises when its snapshot has no
\* rows, no row with a base segment or no row with a current segment; the
\* call returns its (empty or zero-valued) result
C23_AnalyticsNeverRaiseOnEmptyInput ==
    (call.op \in AnalyticsFunctions /\ EmptyInput(call.snapshot)) => ~call.raised

\* what holds instead: the three functions that build their result without
\* a frame lookup return on such a snapshot
ViewsWithoutLookupReturn ==
    ( /\ call.op \in {"generate_movement_matrix", "generate_sankey_data",
                      "calculate_product_mix"}
      /\ EmptyInput(call.snapshot) )
    => ~call.raised

-----------------------------------------------------------------------------
(* The year rollover of the trailing window *)

\* C24 as stated: the trailing window of 3 months that ends at the target
\* month 202401 covers exactly the months {201211, 201212, 202401}
C24_RolloverWindowAsStated ==
    ( /\ call.op = "get_ttm_months"
      /\ call.month = 202401 /\ call.num_months = 3 )
    => Range(call.result) = {201211, 201212, 202401}

\* C24: the trailing window of 3 months that ends at the target month
\* 202401 covers exactly the months {202311, 202312, 202401}
C24_RolloverWindow ==
    ( /\ call.op = "get_ttm_months"
      /\ call.month = 202401 /\ call.num_months = 3 )
    => Range(call.result) = {202311, 202312, 202401}

C24_Witness ==
    /\ call.op = "get_ttm_months"
    /\ call.month = 202401 /\ call.num_months = 3
    /\ call.result = <<202311, 202312, 202401>>

\* the rows of a snapshot that have a current segment
CurrentRows(snapshot) == SelectSeq(snapshot, LAMBDA r : ~isna(r.current_segment))

\* the percentage change from base to curr is below the threshold; there is
\* no percentage change from a base of 0
PctChangeBelow(base, curr, threshold) ==
    /\ base # 0
    /\ IF base > 0 THEN (curr - base) * 100 < threshold * base
       ELSE (curr - base) * 100 > threshold * base

\* the points for a revenue decline, given whether the change counts
DeclinePoints(base, curr, counts) ==
    IF ~counts THEN 0
    ELSE IF PctChangeBelow(base, curr, -20) THEN 40
    ELSE IF PctChangeBelow(base, curr, -10) THEN 25
    ELSE IF PctChangeBelow(base, curr, 0) THEN 10
    ELSE 0

\* the three factors that do not depend on the base revenue
OtherPoints(row) ==
    (IF row.current_A_rev_wf < 5000 THEN 20
     ELSE IF row.current_A_rev_wf < 10000 THEN 10 ELSE 0)
    + (IF SegNum[row.current_segment] >= 16 THEN 20
       ELSE IF SegNum[row.current_segment] >= 11 THEN 10 ELSE 0)
    + (IF /\ row.status = "Moved Internal"
          /\ SegNum[row.current_segment] > SegNum[row.base_segment]
       THEN 20 ELSE 0)

\* one risk row per snapshot row with a current segment, each with the sum
\* of the four factors; an entity whose revenue fell from 10000 to 7000 and
\* whose segment has an ordinal of 16 or more scores at least 60 and is High
ChurnRiskRows(snapshot, risk_df, Counts(_)) ==
    /\ Len(risk_df) = Len(CurrentRows(snapshot))
    /\ \A i \in DOMAIN snapshot :
        ~isna(snapshot[i].current_segment) =>
            \E j \in DOMAIN risk_df : risk_df[j].entity = snapshot[i].entity
    /\ \A j \in DOMAIN risk_df :
        LET row == snapshot[RowOf(snapshot, risk_df[j].entity)]
        IN  /\ risk_df[j].risk_score =
                    DeclinePoints(row.base_A_rev_wf, row.current_A_rev_wf,
                                  Counts(row.base_A_rev_wf))
                    + OtherPoints(row)
            /\ ( /\ row.base_A_rev_wf = 10000 /\ row.current_A_rev_wf = 7000
                 /\ SegNum[row.current_segment] >= 16 )
               => risk_df[j].risk_score >= 60 /\ risk_df[j].risk_level = "High"

\* C25 as stated: calculate_churn_risk_score outputs exactly one row per
\* snapshot row with a non-null current_segment, and each risk_score is the
\* sum of the points for the revenue decline (40 if the percentage change of
\* the summed revenue is below -20, 25 if below -10, 10 if below 0), for the
\* revenue level (20 below 5000, 10 below 10000), for the segment tier
\* (20 from ordinal 16, 10 from 11) and for a downward move (20 iff Moved
\* Internal with a greater current ordinal); e.g. 10000 -> 7000 in SEG18
\* scores at least 60 and is High
C25_ChurnRiskScoreAsStated ==
    call.op = "calculate_churn_risk_score" =>
        ChurnRiskRows(call.snapshot, call.result, LAMBDA base : TRUE)

\* C25: the same, the revenue decline being counted only for an entity
\* whose summed base revenue is positive (0 points otherwise)
C25_ChurnRiskScore ==
    call.op = "calculate_churn_risk_score" =>
        ChurnRiskRows(call.snapshot, call.result, LAMBDA base : base > 0)

\* a frame in which one entity has all four factors at their highest and
\* which leaves out a snapshot row without current segment
C25_Witness ==
    /\ call.op = "calculate_churn_risk_score"
    /\ \E j \in DOMAIN call.result :
        /\ call.result[j].risk_score = 100
        /\ call.snapshot[RowOf(call.snapshot, call.result[j].entity)].status
                = "Moved Internal"
    /\ Len(call.result) < Len(call.snapshot)

\* the rows of a snapshot whose column has the given segment
RowsIn(snapshot, column, segment) ==
    SelectSeq(snapshot, LAMBDA r : r[column] = segment)

\* the non-null values of a segment column
SnapshotSegmentsOf(snapshot, column) ==
    {snapshot[i][column] : i \in DOMAIN snapshot} \ {NaN}

\* h is the nearest whole number of hundredths to num / den, for den > 0
IsHundredths(h, num, den) ==
    2 * den * h <= 200 * num + den /\ 200 * num + den < 2 * den * (h + 1)

\* the row identify_at_risk_segments owes to a current segment: the churn
\* rate of the segment's base-period entities (0 without any), the change
\* of the segment's revenue (0 without positive base revenue), both reported
\* to two decimals, and the score and level they give
SegmentRiskRow(snapshot, row) ==
    LET segment == row["Segment"]
        base_rows == RowsIn(snapshot, "base_segment", segment)
        curr_rows == RowsIn(snapshot, "current_segment", segment)
        lost == Len(SelectSeq(base_rows, LAMBDA r : r.status = "Lost (System)"))
        size == Len(base_rows)
        base_rev == SumCol(base_rows, "base_A_rev_wf")
        curr_rev == SumCol(curr_rows, "current_A_rev_wf")
        churn_points ==
            IF size = 0 THEN 0
            ELSE IF 100 * lost > 10 * size THEN 40
            ELSE IF 100 * lost > 5 * size THEN 20
            ELSE 0
        revenue_points ==
            IF base_rev <= 0 THEN 0
            ELSE IF 100 * (curr_rev - base_rev) < -15 * base_rev THEN 40
            ELSE IF 100 * (curr_rev - base_rev) < -5 * base_rev THEN 20
            ELSE 0
        tier_points == IF SegNum[segment] >= 15 THEN 20 ELSE 0
        score == row["Risk Score"]
    IN  /\ row["Current Size"] = Len(curr_rows)
        /\ IF size = 0 THEN row["Churn Rate %"] = 0
           ELSE IsHundredths(row["Churn Rate %"], 100 * lost, size)
        /\ IF base_rev <= 0 THEN row["Revenue Change %"] = 0
           ELSE IsHundredths(row["Revenue Change %"],
                             100 * (curr_rev - base_rev), base_rev)
        /\ score = churn_points + revenue_points + tier_points
        /\ score \in 0..100
        /\ (row["Risk Level"] = "High") <=> (score >= 60)
        /\ (row["Risk Level"] = "Medium") <=> (score >= 30 /\ score < 60)
        /\ (row["Risk Level"] = "Low") <=> (score < 30)

C27_Cohorts ==
    call.op = "identify_segment_cohorts" =>
        /\ {call.result[k]["Base Segment"] : k \in DOMAIN call.result}
                = SnapshotSegmentsOf(call.snapshot, "base_segment")
        /\ \A j, k \in DOMAIN call.result :
                j < k => SegmentRank(call.result[j]["Base Segment"])
                            < SegmentRank(call.result[k]["Base Segment"])
        /\ \A k \in DOMAIN call.result :
            LET cohort == call.result[k]
                base == cohort["Base Segment"]
                moved == {i \in DOMAIN call.snapshot :
                            /\ call.snapshot[i].base_segment = base
                            /\ call.snapshot[i].status = "Moved Internal"}
                up == {i \in moved :
                        SegNum[call.snapshot[i].current_segment] < SegNum[base]}
                size == cohort["Cohort Size"]
                retention == cohort["Retention Rate"]
                churn == cohort["Churn Rate"]
            IN  /\ cohort["Moved Up"] = Cardinality(up)
                /\ cohort["Moved Down"] = Cardinality(moved \ up)
                /\ IF size = 0 THEN retention.num = 0 /\ churn.num = 0
                   ELSE /\ retention.num * size = 100 * cohort["Retained"] * retention.den
                        /\ churn.num * size = 100 * cohort["Churned"] * churn.den

\* two cohorts in ascending order; the entity of SEG02 moved up to segment 1
\* and the entity of SEG01 moved to the equal number, which counts as down
C27_Witness ==
    /\ call.op = "identify_segment_cohorts"
    /\ Len(call.result) = 2
    /\ call.result[1]["Base Segment"] = "SEG01"
    /\ call.result[1]["Moved Down"] = 1 /\ call.result[1]["Moved Up"] = 0
    /\ call.result[2]["Base Segment"] = "SEG02"
    /\ call.result[2]["Moved Up"] = 1
    /\ call.result[2]["Retention Rate"].num = 0

-----------------------------------------------------------------------------
(* What a build leaves in the cache directory *)

TtmEntry(month) == <<"metrics", <<"ttm", month>>>>

\* the three files of a build: its snapshot and the aggregates of its months
BuildEntries(base_month, current_month) ==
    {SnapshotEntry(base_month, current_month), TtmEntry(base_month),
     TtmEntry(current_month)}

\* C28: with caching on and no I/O failure, a create_snapshot that misses
\* the snapshot cache leaves the entries snapshots/snapshot_<base>_<current>,
\* metrics/ttm_<base> and metrics/ttm_<current> present, next to the entries
\* that were there before and to nothing else; one that hits does not run
\* the aggregator and leaves the cache store as it was
C28_BuildFrame ==
    [][ CachedBuildStep =>
          LET base_month == call'.base_seg[1].segmentation_mnth
              current_month == call'.curr_seg[1].segmentation_mnth
              entry == SnapshotEntry(base_month, current_month)
              mine == BuildEntries(base_month, current_month)
          IN  IF entry \in DOMAIN disk /\ disk[entry].state = "pickle"
              THEN /\ disk' = disk
                   /\ ~call'.base_hit /\ ~call'.curr_hit
                   /\ call'.base_metrics = <<>> /\ call'.curr_metrics = <<>>
              ELSE /\ DOMAIN disk' = DOMAIN disk \cup mine
                   /\ \A path \in mine : disk'[path].state = "pickle"
                   /\ \A path \in DOMAIN disk \ mine : disk'[path] = disk[path]
      ]_vars

\* a build that missed next to an entry of another build, which it kept
C28_Witness ==
    /\ call.op = "create_snapshot"
    /\ ENABLE_CACHING /\ ioMode = "ok"
    /\ ~call.hit
    /\ LET mine == BuildEntries(call.base_seg[1].segmentation_mnth,
                                call.curr_seg[1].segmentation_mnth)
       IN  mine \subseteq DOMAIN disk /\ DOMAIN disk # mine

\* a build served from the cache while the aggregate of its base month is
\* not stored, and stays so
BuildHitWithoutAggregate ==
    /\ call.op = "create_snapshot"
    /\ ENABLE_CACHING /\ ioMode = "ok"
    /\ call.hit
    /\ TtmEntry(call.base_seg[1].segmentation_mnth) \notin DOMAIN disk

-----------------------------------------------------------------------------
(* The aggregates a build takes from the cache *)

\* the aggregate of a month as a build finds it stored, if it does
StoredAggregate(month) ==
    IF TtmEntry(month) \in DOMAIN disk /\ disk[TtmEntry(month)].state = "pickle"
    THEN <<Unpickle(disk[TtmEntry(month)].blob)>>
    ELSE <<>>

\* C29: the key of the aggregated metrics is made of the target month only
\* (metrics/ttm_<month>).  With caching on, once calculate_ttm_metrics has
\* stored a result for a month, every later call for that month, from any
\* build that has it as base or as current month, returns the stored table
\* and leaves it stored unchanged, whatever metrics table the build passes
\* and whatever TTM_MONTHS the process is configured with
C29_AggregateReuse ==
    [][ (CachedBuildStep /\ ~call'.hit) =>
          LET base_month == call'.base_seg[1].segmentation_mnth
              current_month == call'.curr_seg[1].segmentation_mnth
          IN  /\ TtmEntry(base_month) \in DOMAIN disk'
              /\ TtmEntry(current_month) \in DOMAIN disk'
              /\ StoredAggregate(base_month) # <<>> =>
                    /\ call'.base_metrics = StoredAggregate(base_month)[1]
                    /\ disk'[TtmEntry(base_month)] = disk[TtmEntry(base_month)]
              /\ StoredAggregate(current_month) # <<>> =>
                    /\ call'.curr_metrics = StoredAggregate(current_month)[1]
                    /\ disk'[TtmEntry(current_month)] = disk[TtmEntry(current_month)]
      ]_vars

\* a build under a window of 3 months that was handed, for both of its
\* months, aggregates that its own metrics table and window do not yield
C29_Witness ==
    /\ call.op = "create_snapshot"
    /\ ENABLE_CACHING /\ ioMode = "ok"
    /\ TTM_MONTHS = 3
    /\ ~call.hit /\ call.base_hit /\ call.curr_hit
    /\ call.base_metrics
            # ComputeTtm(call.metrics_glbl, call.base_seg[1].segmentation_mnth)
    /\ call.curr_metrics
            # ComputeTtm(call.metrics_glbl, call.curr_seg[1].segmentation_mnth)

-----------------------------------------------------------------------------
(* The summary against the movement matrix *)

\* the rows of a summary for a segment (or for TOTAL)
SummaryRowsOf(df, segment) ==
    {df[k] : k \in {k \in DOMAIN df : df[k]["Segment"] = segment}}

\* C30: for the metric 'count' and every snapshot the summary and the
\* movement matrix agree: for each base segment s the summary's Base is
\* the matrix's Total Out of row s and is Retained + Lost (Other Seg)
\* + Lost (System); for each current segment s the summary's Current is the
\* matrix's Total In of column s and is Retained + New (System)
\* + Added (Other Seg); and the TOTAL of Added (Other Seg) is the TOTAL of
\* Lost (Other Seg)
C30_SummaryAgreesWithMatrix ==
    (call.op = "generate_summary_view" /\ call.metric = "count") =>
        LET matrix == generate_movement_matrix(call.snapshot, "count")
        IN  /\ \A s \in SnapshotSegmentsOf(call.snapshot, "base_segment") :
                /\ SummaryRowsOf(call.result, s) # {}
                /\ \A row \in SummaryRowsOf(call.result, s) :
                    /\ row["Base"] = matrix.cell[s]["Total Out"]
                    /\ row["Base"] = row["Retained"] + row["Lost (Other Seg)"]
                                        + row["Lost (System)"]
            /\ \A s \in SnapshotSegmentsOf(call.snapshot, "current_segment") :
                /\ SummaryRowsOf(call.result, s) # {}
                /\ \A row \in SummaryRowsOf(call.result, s) :
                    /\ row["Current"] = matrix.cell["Total In"][s]
                    /\ row["Current"] = row["Retained"] + row["New (System)"]
                                        + row["Added (Other Seg)"]
            /\ \A row \in SummaryRowsOf(call.result, "TOTAL") :
                    row["Added (Other Seg)"] = row["Lost (Other Seg)"]

\* a summary of a snapshot in which an entity changed its segment and
\* another one is new to the system
C30_Witness ==
    /\ call.op = "generate_summary_view" /\ call.metric = "count"
    /\ ~call.raised
    /\ \E row \in SummaryRowsOf(call.result, "TOTAL") :
        /\ row["Added (Other Seg)"] > 0
        /\ row["New (System)"] > 0

=============================================================================
